---------------------------- MODULE Spec2Model ----------------------------
(***************************************************************************)
(* A model of the narrative-clustering engine of the Solana narrative      *)
(* detector: NarrativeClusterer.clusterSignals and the functions it calls  *)
(* (keyword normalisation, weighted-Jaccard similarity, greedy cluster     *)
(* building, centroid update, narrative text and metrics, deduplication,   *)
(* ranking and capping).                                                   *)
(*                                                                         *)
(* Conventions:                                                            *)
(*  - keywords, titles and ids are strings; a character is a string of     *)
(*    length one, and the string functions of the code (toLowerCase, trim, *)
(*    includes, split, replace, the regular expressions) are computed      *)
(*    character by character;                                              *)
(*  - real numbers are fixed-point integers in thousandths ("milli"): a    *)
(*    weight of 2.5 is 2500, a score of 86.5 is 86500;                     *)
(*  - time is counted in days: a timestamp is a day number and Date.now()  *)
(*    is the variable now, read once per run;                              *)
(*  - a similarity is the exact fraction <<numerator, denominator>> of     *)
(*    the two weighted sums; fractions are compared by cross               *)
(*    multiplication, which agrees with the comparison of the two          *)
(*    double-precision quotients for sums this small;                      *)
(*  - a JavaScript Set is a duplicate-free sequence in insertion order;    *)
(*  - Array.prototype.sort is stable.                                      *)
(***************************************************************************)
EXTENDS Integers, Sequences, FiniteSets, TLC

---------------------------------------------------------------------------
(* Bounds of the model.                                                    *)

\* Longest batch drawn freely (with repetition) from SignalPool.
MaxBatch == 4

\* Largest number of signals a topic contributes to a grouped batch.
MaxGroup == 3

\* Longest signal.keywords array given to calculateSimilarity on its own.
MaxSimLen == 3

\* Date.now() of the runs, as a day number.
Today == 40

\* Longest keyword list given to normalizeKeywords or to identifyTheme on
\* its own.
MaxKeywords == 3

\* Longest batch given to a function of the SignalDetector.
MaxDetectorBatch == 3

\* Largest topN given to extractTopKeywords.
MaxTopN == 3

\* The number of signals of the large cluster of LargeBatch.
MaxCluster == 32

\* The largest number of signals one collector returns.
MaxCollected == 2

---------------------------------------------------------------------------
(* Program constants.                                                      *)

\* private minClusterSize = 3
minClusterSize == 3

\* private similarityThreshold = 0.25, as the fraction 1 / 4
similarityThresholdDen == 4

\* private maxNarratives = 10
maxNarratives == 10

\* weekMs = 7 * 24 * 60 * 60 * 1000, in days
weekDays == 7

---------------------------------------------------------------------------
(* Generic sequence helpers.                                               *)

Range(s) == {s[i] : i \in 1..Len(s)}

Min(a, b) == IF a <= b THEN a ELSE b

\* Array.prototype.slice(0, n)
Take(s, n) == SubSeq(s, 1, Min(n, Len(s)))

\* Set.prototype.add applied to each element of t in turn: a duplicate-free
\* sequence in insertion order.
RECURSIVE AddAll(_, _)
AddAll(s, t) ==
  IF t = <<>> THEN s
  ELSE AddAll(IF Head(t) \in Range(s) THEN s ELSE Append(s, Head(t)), Tail(t))

\* new Set(array)
ToSet(s) == AddAll(<<>>, s)

\* array.sort((a, b) => key(b) - key(a)), keys[i] being the key of s[i]:
\* descending by key, elements of equal key in their original order (the
\* sort is stable).
SortDesc(s, keys) ==
  LET n == Len(s)
      rank(i) == 1 + Cardinality({j \in 1..n : \/ keys[j] > keys[i]
                                               \/ keys[j] = keys[i] /\ j < i})
  IN  [p \in 1..n |-> s[CHOOSE i \in 1..n : rank(i) = p]]

---------------------------------------------------------------------------
(* Strings.                                                                *)

UpperLetters == "ABCDEFGHIJKLMNOPQRSTUVWXYZ"

LowerLetters == "abcdefghijklmnopqrstuvwxyz"

DigitChars == "0123456789"

CharAt(s, i) == SubSeq(s, i, i)

Chars(s) == {CharAt(s, i) : i \in 1..Len(s)}

\* The position of the character c in the string s (c occurs in s).
IndexIn(s, c) == CHOOSE i \in 1..Len(s) : CharAt(s, i) = c

IsLowerLetter(c) == c \in Chars(LowerLetters)

IsUpperLetter(c) == c \in Chars(UpperLetters)

IsLetter(c) == IsLowerLetter(c) \/ IsUpperLetter(c)

IsDigit(c) == c \in Chars(DigitChars)

IsSpace(c) == c = " "

LowerChar(c) ==
  IF IsUpperLetter(c) THEN CharAt(LowerLetters, IndexIn(UpperLetters, c)) ELSE c

UpperChar(c) ==
  IF IsLowerLetter(c) THEN CharAt(UpperLetters, IndexIn(LowerLetters, c)) ELSE c

\* String.prototype.charCodeAt(0) of a one-character string.
CharCode(c) ==
  CASE IsUpperLetter(c) -> 64 + IndexIn(UpperLetters, c)
    [] IsLowerLetter(c) -> 96 + IndexIn(LowerLetters, c)
    [] IsDigit(c) -> 47 + IndexIn(DigitChars, c)
    [] c = " " -> 32
    [] c = "&" -> 38
    [] c = "-" -> 45
    [] c = "/" -> 47
    [] c = ":" -> 58
    [] c = "_" -> 95

\* String.prototype.toLowerCase
RECURSIVE ToLowerCase(_)
ToLowerCase(s) ==
  IF s = "" THEN "" ELSE LowerChar(CharAt(s, 1)) \o ToLowerCase(Tail(s))

\* String.prototype.trim
RECURSIVE TrimStart(_)
TrimStart(s) ==
  IF s # "" /\ IsSpace(CharAt(s, 1)) THEN TrimStart(Tail(s)) ELSE s

RECURSIVE TrimEnd(_)
TrimEnd(s) ==
  IF s # "" /\ IsSpace(CharAt(s, Len(s)))
  THEN TrimEnd(SubSeq(s, 1, Len(s) - 1)) ELSE s

Trim(s) == TrimEnd(TrimStart(s))

\* String.prototype.includes
Includes(s, t) ==
  \E i \in 1..(Len(s) - Len(t) + 1) : SubSeq(s, i, i + Len(t) - 1) = t

AllDigits(s) == \A i \in 1..Len(s) : IsDigit(CharAt(s, i))

AllLetters(s) == \A i \in 1..Len(s) : IsLetter(CharAt(s, i))

\* The separator class [\s/&] of formatTitle's split.
IsThemeSep(c) == IsSpace(c) \/ c = "/" \/ c = "&"

\* String.prototype.split(/[\s/&]+/): the pieces of s between the maximal
\* runs of separator characters (cur is the piece being read, inRun whether
\* the previous character was a separator).
RECURSIVE SplitSepRuns(_, _, _)
SplitSepRuns(s, cur, inRun) ==
  IF s = "" THEN <<cur>>
  ELSE IF IsThemeSep(CharAt(s, 1))
       THEN (IF inRun THEN <<>> ELSE <<cur>>) \o SplitSepRuns(Tail(s), "", TRUE)
       ELSE SplitSepRuns(Tail(s), cur \o CharAt(s, 1), FALSE)

\* String.prototype.split with a one-character separator.
RECURSIVE SplitChar(_, _, _)
SplitChar(s, sep, cur) ==
  IF s = "" THEN <<cur>>
  ELSE IF CharAt(s, 1) = sep THEN <<cur>> \o SplitChar(Tail(s), sep, "")
  ELSE SplitChar(Tail(s), sep, cur \o CharAt(s, 1))

\* Array.prototype.join
RECURSIVE Join(_, _)
Join(parts, sep) ==
  IF parts = <<>> THEN ""
  ELSE IF Len(parts) = 1 THEN parts[1]
  ELSE parts[1] \o sep \o Join(Tail(parts), sep)

\* String.prototype.replace(/[^a-z]+/g, ' ')
RECURSIVE ReplaceNonLower(_, _)
ReplaceNonLower(s, inRun) ==
  IF s = "" THEN ""
  ELSE IF IsLowerLetter(CharAt(s, 1))
       THEN CharAt(s, 1) \o ReplaceNonLower(Tail(s), FALSE)
       ELSE (IF inRun THEN "" ELSE " ") \o ReplaceNonLower(Tail(s), TRUE)

\* KEYWORD_ALIASES: canonical keyword mappings (alias -> canonical form).
KEYWORD_ALIASES ==
  ("dexes" :> "dex" @@
   "amm" :> "dex" @@
   "swap" :> "dex" @@
   "trading" :> "dex" @@
   "perps" :> "derivatives" @@
   "perpetuals" :> "derivatives" @@
   "perp" :> "derivatives" @@
   "lending" :> "lending" @@
   "borrowing" :> "lending" @@
   "liquid-staking" :> "liquid-staking" @@
   "lst" :> "liquid-staking" @@
   "staking" :> "staking" @@
   "validator" :> "staking" @@
   "nft" :> "nft" @@
   "nfts" :> "nft" @@
   "compressed-nfts" :> "compressed-nft" @@
   "state-compression" :> "compressed-nft" @@
   "zk-compression" :> "compressed-nft" @@
   "token-extensions" :> "token-extensions" @@
   "token-2022" :> "token-extensions" @@
   "ai" :> "ai" @@
   "artificial-intelligence" :> "ai" @@
   "agents" :> "ai-agents" @@
   "ai-agents" :> "ai-agents" @@
   "depin" :> "depin" @@
   "iot" :> "depin" @@
   "bridge" :> "cross-chain" @@
   "cross-chain" :> "cross-chain" @@
   "interoperability" :> "cross-chain" @@
   "rwa" :> "rwa" @@
   "real-world-assets" :> "rwa" @@
   "tokenization" :> "rwa" @@
   "oracle" :> "oracle" @@
   "oracles" :> "oracle" @@
   "payments" :> "payments" @@
   "stablecoin" :> "payments" @@
   "usdc" :> "payments" @@
   "mobile" :> "mobile" @@
   "saga" :> "mobile" @@
   "gaming" :> "gaming" @@
   "game" :> "gaming" @@
   "prediction" :> "prediction-market" @@
   "betting" :> "prediction-market" @@
   "yield" :> "yield" @@
   "farming" :> "yield" @@
   "apy" :> "yield" @@
   "cdp" :> "stablecoin" @@
   "mev" :> "mev" @@
   "high-tvl" :> "high-tvl" @@
   "growth" :> "growth" @@
   "trending" :> "trending")

\* ECOSYSTEM_TERMS: the allow-list of ecosystem terms.
ECOSYSTEM_TERMS ==
  {
    "jupiter", "jito", "marinade", "drift", "kamino", "tensor", "raydium",
    "orca", "meteora", "phoenix", "marginfi", "sanctum", "pyth",
    "wormhole", "helius", "metaplex", "helium", "render", "nosana",
    "hivemapper", "phantom", "backpack", "magic-eden", "solana", "anchor",
    "firedancer", "bonk", "jup", "sol", "defi", "nft", "dex", "lending",
    "staking", "liquid-staking", "derivatives", "oracle", "payments",
    "depin", "ai", "ai-agents", "mev", "rwa", "gaming", "mobile",
    "compressed-nft", "token-extensions", "cross-chain", "yield",
    "prediction-market"
  }

\* The filler-word list `noisy` of isNoisyKeyword.
NoisyWords ==
  {
    "behind", "worth", "money", "benefits", "getting", "looking",
    "thinking", "question", "discussion", "help", "need", "want",
    "anyone", "someone", "best", "good", "great", "like", "really",
    "currently", "right", "people", "make", "start", "started", "coming",
    "going", "taking", "working", "trying", "actually", "still", "much",
    "many", "should", "would", "could", "will", "phone", "post", "update",
    "week", "month", "year", "today", "yesterday", "introducing-orb",
    "new-block-explorer", "jump", "shares", "firm", "company", "price",
    "prices", "market", "says", "report", "blog", "article", "read",
    "check"
  }

\* The theme table of identifyTheme, in Object.entries (insertion) order.
Themes ==
  <<
    [theme |-> "DeFi",
     terms |-> <<"defi", "dex", "amm", "lending", "liquidity", "yield", "swap", "derivatives", "perps", "trading">>],
    [theme |-> "Liquid Staking",
     terms |-> <<"liquid-staking", "lst", "marinade", "jito", "sanctum">>],
    [theme |-> "NFTs",
     terms |-> <<"nft", "collection", "mint", "marketplace", "compressed-nft", "metadata", "compressed", "tensor", "magic-eden">>],
    [theme |-> "Gaming",
     terms |-> <<"gaming", "game", "play-to-earn", "web3-game", "metaverse">>],
    [theme |-> "Infrastructure",
     terms |-> <<"validator", "rpc", "infrastructure", "node", "firedancer", "network", "tps">>],
    [theme |-> "Payments",
     terms |-> <<"payments", "stablecoin", "usdc", "transfer", "merchant">>],
    [theme |-> "Mobile",
     terms |-> <<"mobile", "saga", "dapp-store", "smartphone">>],
    [theme |-> "DePIN",
     terms |-> <<"depin", "iot", "physical", "helium", "hivemapper", "nosana", "render">>],
    [theme |-> "AI & Agents",
     terms |-> <<"ai", "ai-agents", "artificial-intelligence", "ml", "model", "inference", "agents">>],
    [theme |-> "Developer Tools",
     terms |-> <<"sdk", "api", "framework", "tools", "library", "anchor", "program">>],
    [theme |-> "Token Extensions",
     terms |-> <<"token-extensions", "token-2022", "transfer-hook", "metadata-pointer">>],
    [theme |-> "MEV",
     terms |-> <<"mev", "jito", "searcher", "bundle">>],
    [theme |-> "Cross-Chain",
     terms |-> <<"cross-chain", "bridge", "wormhole", "interoperability">>],
    [theme |-> "RWA",
     terms |-> <<"rwa", "real-world-assets", "tokenization">>],
    [theme |-> "Oracles",
     terms |-> <<"oracle", "pyth", "price-feed", "data-feed">>]
  >>

\* genericWords of formatTitle.
GenericWords ==
  {
    "solana", "https", "http", "com", "org", "www", "github", "git",
    "rust", "typescript", "javascript", "python", "program", "programs",
    "build", "built", "code", "source", "open", "new", "use", "using",
    "api", "sdk", "lib", "library", "tool", "tools", "test", "tests",
    "repo", "project", "example", "examples", "explorer", "html", "json",
    "defi", "dex", "nft", "sol", "active", "high-volume",
    "onchain-activity", "growth", "trending", "high-tvl", "network",
    "stake", "staking", "lending", "liquid-staking", "ai", "ai-agents",
    "oracle", "payments", "derivatives", "cross-chain", "yield",
    "compressed-nft", "token-extensions", "mev", "rwa", "gaming",
    "mobile", "depin", "prediction-market"
  }
---------------------------------------------------------------------------
(* Keyword normalisation.                                                  *)

\* /^\d+$/
IsNumeric(kw) == Len(kw) >= 1 /\ AllDigits(kw)

\* /^[a-z]+\d{3,}$/i : username patterns like "james09777"
IsUsernameLike(kw) ==
  \E k \in 1..(Len(kw) - 3) :
    AllLetters(SubSeq(kw, 1, k)) /\ AllDigits(SubSeq(kw, k + 1, Len(kw)))

\* /^\d+[a-z]+$/i : "123abc" patterns
IsDigitsThenLetters(kw) ==
  \E k \in 1..(Len(kw) - 1) :
    AllDigits(SubSeq(kw, 1, k)) /\ AllLetters(SubSeq(kw, k + 1, Len(kw)))

isNoisyKeyword(kw) ==
  IF Len(kw) <= 2 THEN TRUE
  ELSE IF IsNumeric(kw) THEN TRUE
  ELSE IF IsUsernameLike(kw) THEN TRUE
  ELSE IF IsDigitsThenLetters(kw) THEN TRUE
  ELSE kw \in NoisyWords

\* KEYWORD_ALIASES is an object literal: KEYWORD_ALIASES[lower] also finds
\* the properties the object inherits from Object.prototype. Those whose
\* name is its own lowercase form are constructor (the function Object) and
\* __proto__ (the object Object.prototype); both values are truthy and are
\* not strings. They are written here as their string conversions.
InheritedProperties ==
  ("constructor" :> "function Object() { [native code] }")
    @@ ("__proto__" :> "[object Object]")

\* The loop of normalizeKeywords: normalized is the Set built so far.
RECURSIVE NormalizeInto(_, _)
NormalizeInto(normalized, keywords) ==
  IF keywords = <<>> THEN normalized
  ELSE
    LET lower == Trim(ToLowerCase(Head(keywords)))
        withAlias ==
          IF lower \in DOMAIN KEYWORD_ALIASES
          THEN AddAll(normalized, <<KEYWORD_ALIASES[lower]>>)
          ELSE IF lower \in DOMAIN InheritedProperties
          THEN AddAll(normalized, <<InheritedProperties[lower]>>)
          ELSE normalized
        withOriginal ==
          IF lower \in ECOSYSTEM_TERMS \/ Len(lower) > 3
          THEN AddAll(withAlias, <<lower>>)
          ELSE withAlias
    IN  IF isNoisyKeyword(lower)
        THEN NormalizeInto(normalized, Tail(keywords))
        ELSE NormalizeInto(withOriginal, Tail(keywords))

normalizeKeywords(keywords) == NormalizeInto(<<>>, keywords)

---------------------------------------------------------------------------
(* Weighted-Jaccard similarity.                                            *)

\* ECOSYSTEM_TERMS.has(kw) ? 2 : 1
KeywordWeight(kw) == IF kw \in ECOSYSTEM_TERMS THEN 2 ELSE 1

RECURSIVE SumWeights(_)
SumWeights(kws) ==
  IF kws = <<>> THEN 0 ELSE KeywordWeight(Head(kws)) + SumWeights(Tail(kws))

\* Fractions <<numerator, denominator>> with a positive denominator.
FracGt(a, b) == a[1] * b[2] > b[1] * a[2]

FracGe(a, b) == a[1] * b[2] >= b[1] * a[2]

FracEq(a, b) == a[1] * b[2] = b[1] * a[2]

Zero == <<0, 1>>

One == <<1, 1>>

\* Mutant of similarityThreshold: 25, for 0.25.
similarityThresholdWhole == <<100, similarityThresholdDen>>

similarityThreshold == <<1, similarityThresholdDen>>

\* Mutant of calculateSimilarity: the union summed over the cluster's
\* keywords only.
calculateSimilarityClusterUnion(signalKeywordList, clusterKeywords) ==
  LET signalKeywords == ToSet(signalKeywordList)
      both == SelectSeq(clusterKeywords,
                        LAMBDA kw : kw \in Range(signalKeywords))
  IN  IF Len(signalKeywords) = 0 \/ Len(clusterKeywords) = 0 THEN Zero
      ELSE <<SumWeights(both), SumWeights(clusterKeywords)>>

\* Mutant of calculateSimilarity: the intersection counted, not weighted.
calculateSimilarityCountedIntersection(signalKeywordList, clusterKeywords) ==
  LET signalKeywords == ToSet(signalKeywordList)
      allKeywords == AddAll(signalKeywords, clusterKeywords)
      both == SelectSeq(allKeywords,
                        LAMBDA kw : /\ kw \in Range(signalKeywords)
                                    /\ kw \in Range(clusterKeywords))
  IN  IF Len(signalKeywords) = 0 \/ Len(clusterKeywords) = 0 THEN Zero
      ELSE <<Len(both), SumWeights(allKeywords)>>

\* Mutant of calculateSimilarity: two empty keyword sets are identical.
calculateSimilarityEmptyIdentical(signalKeywordList, clusterKeywords) ==
  LET signalKeywords == ToSet(signalKeywordList)
      allKeywords == AddAll(signalKeywords, clusterKeywords)
      both == SelectSeq(allKeywords,
                        LAMBDA kw : /\ kw \in Range(signalKeywords)
                                    /\ kw \in Range(clusterKeywords))
  IN  IF Len(allKeywords) = 0 THEN One
      ELSE <<SumWeights(both), SumWeights(allKeywords)>>

\* calculateSimilarity(signal, cluster), given signal.keywords (an array) and
\* cluster.keywords (a Set): the fraction weightedIntersection / weightedUnion.
calculateSimilarity(signalKeywordList, clusterKeywords) ==
  LET signalKeywords == ToSet(signalKeywordList)
      allKeywords == AddAll(signalKeywords, clusterKeywords)
      both == SelectSeq(allKeywords,
                        LAMBDA kw : /\ kw \in Range(signalKeywords)
                                    /\ kw \in Range(clusterKeywords))
      weightedIntersection == SumWeights(both)
      weightedUnion == SumWeights(allKeywords)
  IN  IF Len(signalKeywords) = 0 \/ Len(clusterKeywords) = 0 THEN Zero
      ELSE IF weightedUnion = 0 THEN Zero
      ELSE <<weightedIntersection, weightedUnion>>

---------------------------------------------------------------------------
(* Greedy cluster building.                                                *)

\* Mutant of FindBestCluster: a later cluster of equal similarity replaces
\* the best one.
RECURSIVE FindBestClusterLastWins(_, _, _, _, _)
FindBestClusterLastWins(signalKeywords, cls, i, bestCluster, bestSimilarity) ==
  IF i > Len(cls) THEN bestCluster
  ELSE
    LET similarity == calculateSimilarity(signalKeywords, cls[i].keywords)
    IN  IF FracGe(similarity, bestSimilarity)
           /\ FracGe(similarity, similarityThreshold)
        THEN FindBestClusterLastWins(signalKeywords, cls, i + 1, i, similarity)
        ELSE FindBestClusterLastWins(signalKeywords, cls, i + 1, bestCluster,
                                     bestSimilarity)

\* The inner loop of buildClusters over clusters[i..]: the index of the best
\* matching cluster, 0 for none (bestCluster = null).
RECURSIVE FindBestCluster(_, _, _, _, _)
FindBestCluster(signalKeywords, cls, i, bestCluster, bestSimilarity) ==
  IF i > Len(cls) THEN bestCluster
  ELSE
    LET similarity == calculateSimilarity(signalKeywords, cls[i].keywords)
    IN  IF FracGt(similarity, bestSimilarity)
           /\ FracGe(similarity, similarityThreshold)
        THEN FindBestCluster(signalKeywords, cls, i + 1, i, similarity)
        ELSE FindBestCluster(signalKeywords, cls, i + 1, bestCluster,
                             bestSimilarity)

RECURSIVE Flatten(_)
Flatten(lists) ==
  IF lists = <<>> THEN <<>> ELSE Head(lists) \o Flatten(Tail(lists))

\* The number of occurrences of x in the sequence s.
Count(s, x) == Cardinality({i \in 1..Len(s) : s[i] = x})

\* Mutant of updateCentroid: every keyword is kept.
updateCentroidNoCap(memberKeywords) ==
  LET all == Flatten(memberKeywords)
      entries == ToSet(all)
      freq == [i \in 1..Len(entries) |->
                 KeywordWeight(entries[i]) * Count(all, entries[i])]
  IN  SortDesc(entries, freq)

\* updateCentroid(cluster), given the keyword lists of cluster.signals in
\* order: the entries of keywordFreq (a Map, in first-seen order) sorted by
\* descending frequency, the first 10, their keywords.
updateCentroid(memberKeywords) ==
  LET all == Flatten(memberKeywords)
      entries == ToSet(all)
      freq == [i \in 1..Len(entries) |->
                 KeywordWeight(entries[i]) * Count(all, entries[i])]
  IN  Take(SortDesc(entries, freq), 10)

---------------------------------------------------------------------------
(* Narrative text.                                                         *)

\* terms.some(term => kw.includes(term) || term.includes(kw))
MatchesTerms(kw, terms) ==
  \E j \in 1..Len(terms) : Includes(kw, terms[j]) \/ Includes(terms[j], kw)

ThemeScore(keywords, terms) ==
  Len(SelectSeq(keywords, LAMBDA kw : MatchesTerms(kw, terms)))

\* Mutant of IdentifyThemeFrom: score >= bestScore for score > bestScore.
RECURSIVE IdentifyThemeFromLastWins(_, _, _, _)
IdentifyThemeFromLastWins(keywords, i, bestTheme, bestScore) ==
  IF i > Len(Themes) THEN bestTheme
  ELSE
    LET score == ThemeScore(keywords, Themes[i].terms)
    IN  IF score >= bestScore
        THEN IdentifyThemeFromLastWins(keywords, i + 1, Themes[i].theme, score)
        ELSE IdentifyThemeFromLastWins(keywords, i + 1, bestTheme, bestScore)

\* The loop of identifyTheme over Themes[i..].
RECURSIVE IdentifyThemeFrom(_, _, _, _)
IdentifyThemeFrom(keywords, i, bestTheme, bestScore) ==
  IF i > Len(Themes) THEN bestTheme
  ELSE
    LET score == ThemeScore(keywords, Themes[i].terms)
    IN  IF score > bestScore
        THEN IdentifyThemeFrom(keywords, i + 1, Themes[i].theme, score)
        ELSE IdentifyThemeFrom(keywords, i + 1, bestTheme, bestScore)

identifyTheme(keywords) ==
  IdentifyThemeFrom(keywords, 1, "Emerging Technology", 0)

\* The predicate of formatTitle's first keywords.find.
IsDistinctKeyword(kw, themeWords) ==
  LET lower == ToLowerCase(kw)
  IN  /\ lower \notin GenericWords
      /\ ~ MatchesTerms(lower, themeWords)
      /\ ~ isNoisyKeyword(lower)
      /\ \/ lower \in ECOSYSTEM_TERMS
         \/ Includes(lower, "-") /\ Len(lower) > 5

\* Array.prototype.find: the first element of s in the set Found, "" (for
\* undefined, which is falsy like "") when there is none.
FirstIn(s, Found) ==
  IF \E i \in 1..Len(s) : s[i] \in Found
  THEN s[CHOOSE i \in 1..Len(s) :
           s[i] \in Found /\ \A j \in 1..(i - 1) : s[j] \notin Found]
  ELSE ""

\* word.charAt(0).toUpperCase() + word.slice(1)
Capitalize(word) ==
  IF word = "" THEN "" ELSE UpperChar(CharAt(word, 1)) \o Tail(word)

suffixes == <<"Growth", "Momentum", "Surge", "Wave", "Expansion", "Rise">>

formatTitle(theme, keywords) ==
  LET themeWords == SplitSepRuns(ToLowerCase(theme), "", FALSE)
      first == FirstIn(keywords,
                 {kw \in Range(keywords) : IsDistinctKeyword(kw, themeWords)})
      second == FirstIn(keywords,
                  {kw \in Range(keywords) : ToLowerCase(kw) \in ECOSYSTEM_TERMS})
      third == IF keywords = <<>> THEN "" ELSE keywords[1]
      distinctKeyword ==
        IF first # "" THEN first
        ELSE IF second # "" THEN second
        ELSE IF third # "" THEN third
        ELSE "Ecosystem"
      words == SplitChar(distinctKeyword, "-", "")
      formatted == Join([i \in 1..Len(words) |-> Capitalize(words[i])], " ")
      suffixIndex == CharCode(CharAt(formatted, 1)) % Len(suffixes)
  IN  theme \o ": " \o formatted \o " " \o suffixes[suffixIndex + 1]

\* The title of generateNarrativeText(cluster), given cluster.centroid.
generateNarrativeTitle(centroid) ==
  LET topKeywords == Take(centroid, 5)
  IN  formatTitle(identifyTheme(topKeywords), topKeywords)

---------------------------------------------------------------------------
(* Narrative metrics and score.                                            *)

RECURSIVE SumSeq(_)
SumSeq(s) == IF s = <<>> THEN 0 ELSE Head(s) + SumSeq(Tail(s))

\* calculateClusterVelocity(signals), in milli, given the timestamps of the
\* signals and Date.now().
calculateClusterVelocity(timestamps, nowDay) ==
  LET recentCount ==
        Len(SelectSeq(timestamps, LAMBDA t : nowDay - t < weekDays))
      olderCount ==
        Len(SelectSeq(timestamps, LAMBDA t : /\ t < nowDay - weekDays
                                             /\ t > nowDay - 2 * weekDays))
  IN  IF olderCount = 0 THEN (IF recentCount > 0 THEN 2000 ELSE 1000)
      ELSE (recentCount * 1000) \div olderCount

\* The Taylor series of e^(x / 1000) in ten-thousandths, from the term of
\* index k on (term is x^(k-1) / (k-1)!), for x >= 0.
RECURSIVE ExpSeries(_, _, _, _)
ExpSeries(x, k, term, acc) ==
  IF term = 0 THEN acc
  ELSE ExpSeries(x, k + 1, (term * x) \div (k * 1000), acc + term)

\* Math.exp(x / 1000), in milli.
ExpMilli(x) ==
  IF x >= 0 THEN ExpSeries(x, 1, 10000, 0) \div 10
  ELSE 10000000 \div ExpSeries(-x, 1, 10000, 0)

\* calculateClusterRecency(signals), in milli: Math.exp(-ageInDays / 10) of
\* the mean timestamp.
calculateClusterRecency(timestamps, nowDay) ==
  LET n == Len(timestamps)
      ageInDaysMilli == ((nowDay * n - SumSeq(timestamps)) * 1000) \div n
  IN  ExpMilli((0 - ageInDaysMilli) \div 10)

\* signals.filter(s => s.source === 'twitter' && s.weight >= 2.5).length
countKeyVoiceMentions(members) ==
  Len(SelectSeq(members,
                LAMBDA s : s.source = "twitter" /\ s.weight >= 2500))

\* Mutant of calculateNarrativeScore: signalCount / 2 without the cap of 15.
calculateNarrativeScoreUncapped(metrics) ==
  metrics.crossSourceCount * 20000
  + metrics.velocity * 15
  + metrics.recency * 20
  + metrics.keyVoiceMentions * 5000
  + metrics.signalCount * 500

\* calculateNarrativeScore(metrics), in milli.
calculateNarrativeScore(metrics) ==
  metrics.crossSourceCount * 20000
  + metrics.velocity * 15
  + metrics.recency * 20
  + metrics.keyVoiceMentions * 5000
  + Min(metrics.signalCount * 500, 15000)

\* clusterToNarrative(cluster); members are the records of cluster.signals.
\* nid stands for the (random, unique) id; description, timestamp and ideas
\* are not modelled.
clusterToNarrative(cluster, members, nid, nowDay) ==
  LET timestamps == [i \in 1..Len(members) |-> members[i].timestamp]
      crossSourceCount ==
        Cardinality({members[i].source : i \in 1..Len(members)})
      velocity == calculateClusterVelocity(timestamps, nowDay)
      recency == calculateClusterRecency(timestamps, nowDay)
      keyVoiceMentions == countKeyVoiceMentions(members)
      score == calculateNarrativeScore(
                 [crossSourceCount |-> crossSourceCount,
                  velocity |-> velocity,
                  recency |-> recency,
                  keyVoiceMentions |-> keyVoiceMentions,
                  signalCount |-> Len(members)])
  IN  [id |-> nid,
       title |-> generateNarrativeTitle(cluster.centroid),
       signals |-> cluster.signals,
       keywords |-> Take(cluster.keywords, 15),
       score |-> score,
       metrics |-> [crossSourceCount |-> crossSourceCount,
                    velocity |-> velocity,
                    recency |-> recency,
                    keyVoiceMentions |-> keyVoiceMentions]]

---------------------------------------------------------------------------
(* Deduplication, ranking and capping.                                     *)

\* title.toLowerCase().replace(/[^a-z]+/g, ' ').trim()
NormalizedTitle(title) == Trim(ReplaceNonLower(ToLowerCase(title), FALSE))

\* title.split(':')[0].toLowerCase().trim()
ThemePrefix(title) == Trim(ToLowerCase(SplitChar(title, ":", "")[1]))

\* Mutant of DeduplicateFrom: the normalized title is not looked up.
RECURSIVE DeduplicateFromIgnoringTitle(_, _, _)
DeduplicateFromIgnoringTitle(narratives, result, seenThemes) ==
  IF narratives = <<>> THEN result
  ELSE
    LET narrative == Head(narratives)
        themePrefix == ThemePrefix(narrative.title)
        themeCount ==
          Len(SelectSeq(result, LAMBDA n : ThemePrefix(n.title) = themePrefix))
    IN  IF themeCount < 2
        THEN DeduplicateFromIgnoringTitle(Tail(narratives),
                                          Append(result, narrative), seenThemes)
        ELSE DeduplicateFromIgnoringTitle(Tail(narratives), result, seenThemes)

\* Mutant of DeduplicateFrom: themeCount <= 2 for themeCount < 2.
RECURSIVE DeduplicateFromThreePerTheme(_, _, _)
DeduplicateFromThreePerTheme(narratives, result, seenThemes) ==
  IF narratives = <<>> THEN result
  ELSE
    LET narrative == Head(narratives)
        normalizedTitle == NormalizedTitle(narrative.title)
        themePrefix == ThemePrefix(narrative.title)
        themeCount ==
          Len(SelectSeq(result, LAMBDA n : ThemePrefix(n.title) = themePrefix))
    IN  IF normalizedTitle \notin seenThemes /\ themeCount <= 2
        THEN DeduplicateFromThreePerTheme(Tail(narratives),
                                          Append(result, narrative),
                                          seenThemes \cup {normalizedTitle})
        ELSE DeduplicateFromThreePerTheme(Tail(narratives), result, seenThemes)

\* Mutant of DeduplicateFrom: an accepted narrative is put in front.
RECURSIVE DeduplicateFromPrepending(_, _, _)
DeduplicateFromPrepending(narratives, result, seenThemes) ==
  IF narratives = <<>> THEN result
  ELSE
    LET narrative == Head(narratives)
        normalizedTitle == NormalizedTitle(narrative.title)
        themePrefix == ThemePrefix(narrative.title)
        themeCount ==
          Len(SelectSeq(result, LAMBDA n : ThemePrefix(n.title) = themePrefix))
    IN  IF normalizedTitle \notin seenThemes /\ themeCount < 2
        THEN DeduplicateFromPrepending(Tail(narratives),
                                       <<narrative>> \o result,
                                       seenThemes \cup {normalizedTitle})
        ELSE DeduplicateFromPrepending(Tail(narratives), result, seenThemes)

\* The loop of deduplicateNarratives over the rest of the narratives.
RECURSIVE DeduplicateFrom(_, _, _)
DeduplicateFrom(narratives, result, seenThemes) ==
  IF narratives = <<>> THEN result
  ELSE
    LET narrative == Head(narratives)
        normalizedTitle == NormalizedTitle(narrative.title)
        themePrefix == ThemePrefix(narrative.title)
        themeCount ==
          Len(SelectSeq(result, LAMBDA n : ThemePrefix(n.title) = themePrefix))
    IN  IF normalizedTitle \notin seenThemes /\ themeCount < 2
        THEN DeduplicateFrom(Tail(narratives), Append(result, narrative),
                             seenThemes \cup {normalizedTitle})
        ELSE DeduplicateFrom(Tail(narratives), result, seenThemes)

deduplicateNarratives(narratives) == DeduplicateFrom(narratives, <<>>, {})

\* Mutant of AdjustedScore: the two branches exchanged.
AdjustedScoreInverted(n) ==
  IF n.metrics.crossSourceCount >= 2 THEN (n.score * 4) \div 10 ELSE n.score

\* n.metrics.crossSourceCount >= 2 ? n.score * 1.0 : n.score * 0.4
AdjustedScore(n) ==
  IF n.metrics.crossSourceCount >= 2 THEN n.score ELSE (n.score * 4) \div 10

Scores(narratives) == [i \in 1..Len(narratives) |-> narratives[i].score]

\* Mutant of rankAndCap: no slice.
rankAndCapNoCap(narratives) ==
  LET adjusted == [i \in 1..Len(narratives) |->
                     [narratives[i] EXCEPT !.score = AdjustedScore(narratives[i])]]
  IN  SortDesc(adjusted, Scores(adjusted))

\* Mutant of rankAndCap: slice(0, maxNarratives - 1).
rankAndCapOneShort(narratives) ==
  LET adjusted == [i \in 1..Len(narratives) |->
                     [narratives[i] EXCEPT !.score = AdjustedScore(narratives[i])]]
  IN  Take(SortDesc(adjusted, Scores(adjusted)), maxNarratives - 1)

\* Mutant of rankAndCap: no sort after the penalty.
rankAndCapNoSort(narratives) ==
  LET adjusted == [i \in 1..Len(narratives) |->
                     [narratives[i] EXCEPT !.score = AdjustedScore(narratives[i])]]
  IN  Take(adjusted, maxNarratives)

\* narratives.map(...).sort((a, b) => b.score - a.score)
\*   .slice(0, this.maxNarratives)
rankAndCap(narratives) ==
  LET adjusted == [i \in 1..Len(narratives) |->
                     [narratives[i] EXCEPT !.score = AdjustedScore(narratives[i])]]
  IN  Take(SortDesc(adjusted, Scores(adjusted)), maxNarratives)

---------------------------------------------------------------------------
(* Input batches.                                                          *)

\* A ProcessedSignal. content and metadata are not read by the clusterer's
\* decisions and are left out.
Signal(id, source, timestamp, keywords, weight, nw, rs, cs) ==
  [id |-> id, source |-> source, timestamp |-> timestamp,
   keywords |-> keywords, weight |-> weight,
   normalizedWeight |-> nw, recencyScore |-> rs, crossSourceScore |-> cs]

\* Topics of the grouped batches: the raw keywords every signal of the topic
\* carries, and per signal (cyclically) its source, its age in days and its
\* weight; rs is the recencyScore of the topic's signals.
Topics ==
  <<
    [kws |-> <<"Jupiter", "swap">>, sources |-> <<"github", "onchain", "discord">>,
     ages |-> <<0, 1, 2>>, weights |-> <<1000>>, rs |-> 900],
    [kws |-> <<"drift", " perps ">>, sources |-> <<"twitter">>,
     ages |-> <<0>>, weights |-> <<3000>>, rs |-> 900],
    [kws |-> <<"kamino", "borrowing">>, sources |-> <<"github", "report">>,
     ages |-> <<8, 9, 3>>, weights |-> <<1000>>, rs |-> 400],
    [kws |-> <<"meteora", "farming">>, sources |-> <<"onchain", "github">>,
     ages |-> <<8, 9, 10>>, weights |-> <<1500>>, rs |-> 300],
    [kws |-> <<"jito", "lst">>, sources |-> <<"twitter", "github">>,
     ages |-> <<1, 1, 12>>, weights |-> <<2500, 2000>>, rs |-> 800],
    [kws |-> <<"marinade", "sanctum">>, sources |-> <<"report">>,
     ages |-> <<20, 25, 30>>, weights |-> <<1000>>, rs |-> 100],
    [kws |-> <<"tensor", "NFTs">>, sources |-> <<"discord", "twitter">>,
     ages |-> <<2, 3>>, weights |-> <<2600>>, rs |-> 700],
    [kws |-> <<"helium", "iot">>, sources |-> <<"github">>,
     ages |-> <<0, 1, 2>>, weights |-> <<1000>>, rs |-> 900],
    [kws |-> <<"firedancer", "validator">>, sources |-> <<"github", "onchain", "report">>,
     ages |-> <<5, 6, 7>>, weights |-> <<1000>>, rs |-> 500],
    [kws |-> <<"wormhole", "bridge">>, sources |-> <<"onchain", "twitter">>,
     ages |-> <<13, 14, 15>>, weights |-> <<500>>, rs |-> 200],
    [kws |-> <<"pyth", "oracles">>, sources |-> <<"onchain">>,
     ages |-> <<0, 8>>, weights |-> <<1000>>, rs |-> 600],
    [kws |-> <<"zk-proofs", "circuits">>, sources |-> <<"discord", "github">>,
     ages |-> <<4>>, weights |-> <<1000>>, rs |-> 600],
    [kws |-> <<"zk_proofs", "verifier">>, sources |-> <<"github", "report">>,
     ages |-> <<5>>, weights |-> <<1000>>, rs |-> 500],
    [kws |-> <<"usdc", "merchant">>, sources |-> <<"report", "twitter">>,
     ages |-> <<3, 10>>, weights |-> <<2500>>, rs |-> 600],
    [kws |-> <<"saga", "dapp-store">>, sources |-> <<"github", "discord", "twitter">>,
     ages |-> <<6>>, weights |-> <<1000>>, rs |-> 400],
    [kws |-> <<"bonk", "agents">>, sources |-> <<"twitter">>,
     ages |-> <<1>>, weights |-> <<1000, 3000>>, rs |-> 900],
    [kws |-> <<"wallet">>, sources |-> <<"discord", "twitter">>,
     ages |-> <<2>>, weights |-> <<1000>>, rs |-> 700],
    [kws |-> <<"explorer">>, sources |-> <<"github">>,
     ages |-> <<9, 2>>, weights |-> <<1000>>, rs |-> 700]
  >>

\* Keywords that tell the signals of one topic apart.
VariantWords == <<"launch", "upgrade", "audit", "mainnet">>

Cyclic(s, j) == s[((j - 1) % Len(s)) + 1]

\* The j-th signal of topic t.
TopicSignal(t, j) ==
  LET topic == Topics[t]
  IN  Signal(ToLowerCase(topic.kws[1]) \o "_" \o ToString(j),
             Cyclic(topic.sources, j),
             Today - Cyclic(topic.ages, j),
             Append(topic.kws, Cyclic(VariantWords, j)),
             Cyclic(topic.weights, j),
             Cyclic(<<500, 900, 100>>, j), topic.rs, 1000)

\* The signals 1..g of the topics lo..hi, topic by topic or, interleaved,
\* round by round.
GroupedBatch(lo, hi, g, interleaved) ==
  LET nt == hi - lo + 1
  IN  [k \in 1..(nt * g) |->
         IF interleaved
         THEN TopicSignal(lo + ((k - 1) % nt), ((k - 1) \div nt) + 1)
         ELSE TopicSignal(lo + ((k - 1) \div g), ((k - 1) % g) + 1)]

GroupedBatches ==
  {GroupedBatch(lo, hi, g, il) :
     lo \in 1..Len(Topics), hi \in 1..Len(Topics),
     g \in (MaxGroup - 1)..MaxGroup, il \in BOOLEAN}

\* Signals of the freely drawn batches: three of one topic, two signals
\* whose keywords are all noisy or dropped, one of another topic.
SignalPool ==
  {TopicSignal(1, 1), TopicSignal(1, 2), TopicSignal(1, 3), TopicSignal(8, 1),
   Signal("noise_1", "twitter", Today, <<"looking", "james09777", "ab">>,
          3000, 900, 1000, 0),
   Signal("noise_2", "twitter", Today - 1, <<"12345", "iot3", "Anyone ">>,
          2500, 100, 900, 0)}

RECURSIVE SeqsUpTo(_, _)
SeqsUpTo(S, n) ==
  IF n = 0 THEN {<<>>}
  ELSE LET shorter == SeqsUpTo(S, n - 1)
       IN  shorter \cup {Append(s, x) : s \in shorter, x \in S}

FreeBatches == SeqsUpTo(SignalPool, MaxBatch)

\* A signal as similar to the first signal of topic 17 as to the second of
\* topic 18, which have no keyword in common.
TieSignal ==
  Signal("tie_1", "discord", Today - 2, <<"launch", "upgrade">>,
         1000, 100, 700, 1000)

\* A batch whose first three signals form one cluster of 11 keywords and
\* whose last one stays alone, the ecosystem term in the last place of each
\* list.
CentroidBatch ==
  <<Signal("wide_1", "github", Today, <<"wallet", "explorer", "launch", "jupiter">>,
           1000, 900, 1000, 1000),
    Signal("wide_2", "discord", Today - 1,
           <<"upgrade", "audit", "mainnet", "jupiter">>, 1000, 500, 900, 1000),
    Signal("wide_3", "onchain", Today - 2,
           <<"wallet", "upgrade", "circuits", "verifier", "merchant", "farming",
             "jupiter">>, 1000, 100, 700, 1000),
    Signal("wide_4", "report", Today - 3, <<"governance", "pyth">>,
           1000, 100, 600, 1000)>>

\* A batch of MaxCluster signals of one topic from two sources, followed by
\* three signals of topic 8, all from one source.
LargeBatch ==
  [k \in 1..MaxCluster |->
     Signal("large_" \o ToString(k), Cyclic(<<"github", "twitter">>, k),
            Today - (k % 3), <<"jupiter", "swap">>, 1000 * ((k % 3) + 1),
            500, 900, 1000)]
  \o <<TopicSignal(8, 1), TopicSignal(8, 2), TopicSignal(8, 3)>>

\* A batch of three signals of topic 1 and two signals of different ids
\* whose keywords are all noisy, one visited first and one last.
NoiseBatch ==
  <<TopicSignal(1, 1),
    Signal("noise_1", "twitter", Today, <<"looking", "james09777", "ab">>,
           3000, 900, 1000, 0),
    TopicSignal(1, 2),
    Signal("noise_3", "discord", Today, <<"12345", "ab", "Anyone ">>,
           1000, 1000, 1000, 1000),
    TopicSignal(1, 3)>>

\* Batches in which a signal is equally similar to two clusters.
TieBatches ==
  {<<TopicSignal(17, 1), TopicSignal(18, 2), TieSignal>>,
   <<TieSignal, TopicSignal(18, 2), TopicSignal(17, 1), TopicSignal(17, 1)>>}

\* Keywords of the inputs of calculateSimilarity: two ecosystem terms (of
\* weight 2) and two other keywords (of weight 1).
SimWords == <<"jupiter", "dex", "swap", "launch">>

\* signal.keywords: an array, which may repeat a keyword.
SimSignalInputs == SeqsUpTo(Range(SimWords), MaxSimLen)

\* cluster.keywords: a Set.
SimClusterInputs ==
  {SelectSeq(SimWords, LAMBDA w : w \in S) : S \in SUBSET Range(SimWords)}

---------------------------------------------------------------------------
(* SignalDetector.                                                         *)
(*                                                                         *)
(* Numbers are fixed-point integers in thousandths, as above; a combined   *)
(* score is in ten-thousandths, so that 0.3 a + 0.4 b + 0.3 c is the exact *)
(* integer 3 a + 4 b + 3 c. All the numbers of a valid batch are >= 0; the *)
(* value NaN and an absent field (undefined) are integers below 0.         *)

\* The not-a-number value of the type number.
NaN == -1

\* The value of a field a record does not have.
undefined == -2

IsNaN(x) == x = NaN

\* A Signal that has not been through processSignals: the three score
\* fields are absent.
RawSignal(id, source, timestamp, keywords, weight) ==
  Signal(id, source, timestamp, keywords, weight,
         undefined, undefined, undefined)

STOP_KEYWORDS ==
  {"https", "http", "www", "com", "org", "dev", "html", "json", "api",
   "github", "git", "readme", "license", "master", "main",
   "rust", "typescript", "javascript", "python", "java", "cpp",
   "solana", "program", "programs", "repo", "repository",
   "code", "build", "built", "source", "open", "new", "use", "using",
   "project", "lib", "library", "example", "examples", "test", "tests",
   "the", "and", "for", "with", "this", "that", "from", "are", "was",
   "into", "about", "based", "also", "just", "only", "more", "some",
   "implementation", "tool", "tools", "app", "application"}

cleanKeywords(signals) ==
  [i \in 1..Len(signals) |->
     [signals[i] EXCEPT
        !.keywords =
          SelectSeq(@, LAMBDA kw : ToLowerCase(kw) \notin STOP_KEYWORDS)]]

\* buildKeywordSourceMap(signals).get(keyword): the sources of the signals
\* that have the keyword.
KeywordSources(signals, keyword) ==
  {signals[i].source :
     i \in {j \in 1..Len(signals) : keyword \in Range(signals[j].keywords)}}

\* calculateRecencyScore(timestamp), in milli: Math.exp(-ageInDays / 7).
calculateRecencyScore(timestamp, nowDay) ==
  IF IsNaN(timestamp) THEN NaN
  ELSE ExpMilli((0 - (nowDay - timestamp) * 1000) \div 7)

\* Mutant of calculateCrossSourceScore: the signals that have a keyword are
\* counted, not their sources.
calculateCrossSourceScorePerSignal(keywords, signals) ==
  LET totalSources ==
        SumSeq([i \in 1..Len(keywords) |->
                  Cardinality({j \in 1..Len(signals) :
                                 keywords[i] \in Range(signals[j].keywords)})])
      keywordCount == Len(keywords)
  IN  IF keywordCount > 0 THEN (totalSources * 1000) \div keywordCount ELSE 0

\* calculateCrossSourceScore(keywords, sourceMap), in milli; every keyword
\* of a signal of the batch is a key of the map.
calculateCrossSourceScore(keywords, signals) ==
  LET totalSources ==
        SumSeq([i \in 1..Len(keywords) |->
                  Cardinality(KeywordSources(signals, keywords[i]))])
      keywordCount == Len(keywords)
  IN  IF keywordCount > 0 THEN (totalSources * 1000) \div keywordCount ELSE 0

\* Math.max(...weights): NaN when a weight is NaN.
MaxOf(weights) ==
  IF \E i \in 1..Len(weights) : IsNaN(weights[i]) THEN NaN
  ELSE CHOOSE w \in Range(weights) : \A v \in Range(weights) : v <= w

\* Math.min(...weights)
MinOf(weights) ==
  IF \E i \in 1..Len(weights) : IsNaN(weights[i]) THEN NaN
  ELSE CHOOSE w \in Range(weights) : \A v \in Range(weights) : w <= v

\* normalizeWeight(weight, allSignals), in milli. NaN === NaN is false, and
\* arithmetic on NaN gives NaN.
normalizeWeight(weight, allSignals) ==
  LET weights == [i \in 1..Len(allSignals) |-> allSignals[i].weight]
      maxWeight == MaxOf(weights)
      minWeight == MinOf(weights)
  IN  IF IsNaN(maxWeight) \/ IsNaN(weight) THEN NaN
      ELSE IF maxWeight = minWeight THEN 500
      ELSE ((weight - minWeight) * 1000) \div (maxWeight - minWeight)

\* calculateTotalScore(signal), in ten-thousandths. An absent field reads
\* as undefined, and undefined * 0.3 is NaN.
calculateTotalScore(signal) ==
  IF \E x \in {signal.normalizedWeight, signal.recencyScore,
               signal.crossSourceScore} : x \in {NaN, undefined}
  THEN NaN
  ELSE 3 * signal.normalizedWeight + 4 * signal.recencyScore
         + 3 * signal.crossSourceScore

\* The arrays array.sort((a, b) => key(b) - key(a)) may leave, keys[i] being
\* the key of s[i]. A difference with NaN is NaN, which sort takes for 0
\* (equal). Without NaN the sort is the stable descending sort. With NaN and
\* all the other keys equal every comparison says equal and the order is
\* kept. Otherwise the comparator is not consistent and the order is
\* implementation-defined: any permutation.
SortOutcomes(s, keys) ==
  IF \A i \in 1..Len(s) : ~IsNaN(keys[i]) THEN {SortDesc(s, keys)}
  ELSE IF \A i, j \in 1..Len(s) :
            ~IsNaN(keys[i]) /\ ~IsNaN(keys[j]) => keys[i] = keys[j]
  THEN {s}
  ELSE {[i \in 1..Len(s) |-> s[p[i]]] :
          p \in {q \in [1..Len(s) -> 1..Len(s)] :
                   \A i, j \in 1..Len(s) : q[i] = q[j] => i = j}}

\* The array `processed` of processSignals, before the sort.
ProcessEach(signals, nowDay) ==
  [i \in 1..Len(signals) |->
     [signals[i] EXCEPT
        !.normalizedWeight = normalizeWeight(signals[i].weight, signals),
        !.recencyScore = calculateRecencyScore(signals[i].timestamp, nowDay),
        !.crossSourceScore =
          calculateCrossSourceScore(signals[i].keywords, signals)]]

\* processSignals(signals): the arrays it may return (one, unless the sort
\* meets NaN).
processSignals(signals, nowDay) ==
  IF Len(signals) = 0 THEN {<<>>}
  ELSE LET processed == ProcessEach(cleanKeywords(signals), nowDay)
       IN  SortOutcomes(processed,
                        [i \in 1..Len(processed) |->
                           calculateTotalScore(processed[i])])

\* The keywords of the signals of a batch, one after the other.
AllKeywords(signals) == Flatten([i \in 1..Len(signals) |-> signals[i].keywords])

\* Mutant of IsAnomalyKeyword: freq >= avgFrequency + 2 * stdDev.
IsAnomalyKeywordNotStrict(keyword, allKeywords) ==
  LET distinct == ToSet(allKeywords)
      frequencies == [i \in 1..Len(distinct) |-> Count(allKeywords, distinct[i])]
      n == Len(frequencies)
      total == SumSeq(frequencies)
      deviation == n * Count(allKeywords, keyword) - total
      sumSquares ==
        SumSeq([i \in 1..n |->
                  (n * frequencies[i] - total) * (n * frequencies[i] - total)])
  IN  deviation >= 0 /\ n * deviation * deviation >= 4 * sumSquares

\* freq > avgFrequency + 2 * stdDev for the frequency of a keyword of the
\* batch, in integers: with n keys in keywordFrequency and total the sum of
\* their frequencies, avgFrequency is total / n, n * (freq - avgFrequency)
\* is deviation, and stdDev is the square root of sumSquares / n^3.
IsAnomalyKeyword(keyword, allKeywords) ==
  LET distinct == ToSet(allKeywords)
      frequencies == [i \in 1..Len(distinct) |-> Count(allKeywords, distinct[i])]
      n == Len(frequencies)
      total == SumSeq(frequencies)
      deviation == n * Count(allKeywords, keyword) - total
      sumSquares ==
        SumSeq([i \in 1..n |->
                  (n * frequencies[i] - total) * (n * frequencies[i] - total)])
  IN  deviation > 0 /\ n * deviation * deviation > 4 * sumSquares

\* detectAnomalies(signals). Without any keyword avgFrequency and stdDev are
\* NaN (0 / 0), no keyword is tested, and no signal has a keyword.
detectAnomalies(signals) ==
  SelectSeq(signals,
            LAMBDA signal :
              \E i \in 1..Len(signal.keywords) :
                IsAnomalyKeyword(signal.keywords[i], AllKeywords(signals)))

\* (keywordScores.get(keyword) || 0) + signalScore: undefined (no entry),
\* NaN and 0 are falsy, and a sum with NaN is NaN.
AddScore(previous, signalScore) ==
  IF IsNaN(signalScore) THEN NaN
  ELSE (IF previous \in {NaN, undefined} THEN 0 ELSE previous) + signalScore

\* The inner loop of extractTopKeywords: keywordScores (a Map, its entries
\* in insertion order) after the keywords of one signal.
RECURSIVE AddKeywordScores(_, _, _)
AddKeywordScores(keywordScores, keywords, signalScore) ==
  IF keywords = <<>> THEN keywordScores
  ELSE
    LET keyword == Head(keywords)
        at == {i \in 1..Len(keywordScores) :
                 keywordScores[i].keyword = keyword}
        updated ==
          IF at = {}
          THEN Append(keywordScores,
                      [keyword |-> keyword,
                       score |-> AddScore(undefined, signalScore)])
          ELSE [i \in 1..Len(keywordScores) |->
                  IF i \in at
                  THEN [keywordScores[i] EXCEPT
                          !.score = AddScore(@, signalScore)]
                  ELSE keywordScores[i]]
    IN  AddKeywordScores(updated, Tail(keywords), signalScore)

\* The outer loop of extractTopKeywords.
RECURSIVE AccumulateScores(_, _)
AccumulateScores(keywordScores, signals) ==
  IF signals = <<>> THEN keywordScores
  ELSE AccumulateScores(
         AddKeywordScores(keywordScores, Head(signals).keywords,
                          calculateTotalScore(Head(signals))),
         Tail(signals))

\* extractTopKeywords(signals, topN), for topN >= 0: the arrays it may
\* return (one, unless the sort meets NaN); scores in ten-thousandths.
extractTopKeywords(signals, topN) ==
  LET entries == AccumulateScores(<<>>, signals)
  IN  {Take(sorted, topN) :
         sorted \in SortOutcomes(entries,
                                 [i \in 1..Len(entries) |-> entries[i].score])}

---------------------------------------------------------------------------
(* The state of one run of clusterSignals.                                 *)

VARIABLES
  signals,        \* the argument of clusterSignals
  now,            \* Date.now()
  pc,             \* the position in clusterSignals
  sortedSignals,  \* buildClusters: the normalised signals, sorted
  idx,            \* buildClusters: the index in sortedSignals of the loop
  clusters,       \* buildClusters: the clusters, signals as indices
  assigned,       \* buildClusters: the ids of the signals placed
  narratives,     \* the narratives of the qualifying clusters, sorted
  deduplicated,   \* the narratives deduplicateNarratives returns
  result,         \* the value clusterSignals returns
  simSignal,      \* calculateSimilarity: signal.keywords
  simCluster,     \* calculateSimilarity: cluster.keywords
  simResult,      \* calculateSimilarity: the value returned
  noisyInput,     \* isNoisyKeyword: kw
  noisyResult,    \* isNoisyKeyword: the value returned
  normInput,      \* normalizeKeywords: keywords
  normResult,     \* normalizeKeywords: the value returned
  themeInput,     \* identifyTheme: keywords
  themeResult,    \* identifyTheme: the value returned
  rawSignals,     \* SignalDetector: the argument signals
  topN,           \* extractTopKeywords: the argument topN
  detected,       \* SignalDetector: the value returned
  heap,           \* the arrays and objects of a call, by address
  arg,            \* the address of the array a caller passes
  ret,            \* the address of the array a call returned
  results,        \* refresh: the CollectorResult of each collector run
  response        \* refresh: the response sent

vars == <<signals, now, pc, sortedSignals, idx, clusters, assigned,
          narratives, deduplicated, result, simSignal, simCluster, simResult,
          noisyInput, noisyResult, normInput, normResult, themeInput,
          themeResult, rawSignals, topN, detected, heap, arg, ret,
          results, response>>

clusterVars == <<signals, now, sortedSignals, idx, clusters, assigned,
                 narratives, deduplicated, result>>

simVars == <<simSignal, simCluster, simResult>>

keywordVars == <<noisyInput, noisyResult, normInput, normResult, themeInput,
                 themeResult>>

detectorVars == <<rawSignals, topN, detected>>

frameVars == <<heap, arg, ret>>

pipelineVars == <<results, response>>

\* The variables of a run that calls neither calculateSimilarity on its own,
\* nor the keyword functions on their own, nor the SignalDetector.
IdleSim == simSignal = <<>> /\ simCluster = <<>> /\ simResult = Zero

IdleKeywords ==
  /\ noisyInput = ""
  /\ noisyResult = FALSE
  /\ normInput = <<>>
  /\ normResult = <<>>
  /\ themeInput = <<>>
  /\ themeResult = ""

IdleDetector == rawSignals = <<>> /\ topN = 0 /\ detected = <<>>

IdleFrame == heap = <<>> /\ arg = 0 /\ ret = 0

IdlePipeline == results = <<>> /\ response = [status |-> 0]

IdleClusterer ==
  /\ signals = <<>>
  /\ sortedSignals = <<>>
  /\ idx = 0
  /\ clusters = <<>>
  /\ assigned = {}
  /\ narratives = <<>>
  /\ deduplicated = <<>>
  /\ result = <<>>

Init ==
  /\ signals \in FreeBatches \cup GroupedBatches \cup TieBatches
                \cup {CentroidBatch, LargeBatch, NoiseBatch}
  /\ now = Today
  /\ pc = "start"
  /\ sortedSignals = <<>>
  /\ idx = 0
  /\ clusters = <<>>
  /\ assigned = {}
  /\ narratives = <<>>
  /\ deduplicated = <<>>
  /\ result = <<>>
  /\ simSignal = <<>>
  /\ simCluster = <<>>
  /\ simResult = Zero
  /\ IdleKeywords
  /\ IdleDetector
  /\ IdleFrame
  /\ IdlePipeline

\* signals.map(s => ({...s, keywords: this.normalizeKeywords(s.keywords)}))
NormalizeSignals(batch) ==
  [i \in 1..Len(batch) |->
     [batch[i] EXCEPT !.keywords = normalizeKeywords(batch[i].keywords)]]

\* The sort key of buildClusters.
TotalScore(s) == s.normalizedWeight + s.recencyScore + s.crossSourceScore

\* Mutant of SortSignals: ascending.
SortSignalsAscending(batch) ==
  SortDesc(batch, [i \in 1..Len(batch) |-> 0 - TotalScore(batch[i])])

SortSignals(batch) ==
  SortDesc(batch, [i \in 1..Len(batch) |-> TotalScore(batch[i])])

\* clusterSignals up to the loop of buildClusters: the early return, the
\* normalisation of the keywords and the sort.
Enter ==
  /\ pc = "start"
  /\ IF Len(signals) < minClusterSize
     THEN /\ pc' = "done"
          /\ result' = <<>>
          /\ UNCHANGED <<sortedSignals, idx>>
     ELSE /\ pc' = "build"
          /\ sortedSignals' = SortSignals(NormalizeSignals(signals))
          /\ idx' = 1
          /\ UNCHANGED result
  /\ UNCHANGED <<signals, now, clusters, assigned, narratives, deduplicated>>
  /\ UNCHANGED <<simVars, keywordVars, detectorVars,
                 frameVars, pipelineVars>>

\* The keyword lists of the signals of a cluster.
MemberKeywords(members) ==
  [i \in 1..Len(members) |-> sortedSignals[members[i]].keywords]

\* The body of the loop of buildClusters for the signal at index i, when it
\* is not yet assigned: the clusters afterwards.
AssignSignal(cls, i) ==
  LET signal == sortedSignals[i]
      best == FindBestCluster(signal.keywords, cls, 1, 0, Zero)
  IN  IF best # 0
      THEN LET members == Append(cls[best].signals, i)
           IN  [cls EXCEPT ![best] =
                  [keywords |-> AddAll(cls[best].keywords, signal.keywords),
                   signals |-> members,
                   centroid |-> updateCentroid(MemberKeywords(members))]]
      ELSE Append(cls, [keywords |-> ToSet(signal.keywords),
                        signals |-> <<i>>,
                        centroid |-> signal.keywords])

\* Mutant of IsAssigned: the check is missing.
IsAssignedNever(signal, ids) == FALSE

\* if (assigned.has(signal.id)) continue
IsAssigned(signal, ids) == signal.id \in ids

\* One iteration of the loop of buildClusters.
Assign ==
  /\ pc = "build"
  /\ idx <= Len(sortedSignals)
  /\ IF IsAssigned(sortedSignals[idx], assigned)
     THEN UNCHANGED <<clusters, assigned>>
     ELSE /\ clusters' = AssignSignal(clusters, idx)
          /\ assigned' = assigned \cup {sortedSignals[idx].id}
  /\ idx' = idx + 1
  /\ UNCHANGED <<signals, now, pc, sortedSignals, narratives, deduplicated, result>>
  /\ UNCHANGED <<simVars, keywordVars, detectorVars,
                 frameVars, pipelineVars>>

\* Mutant of Qualifies: one signal too few.
QualifiesOneShort(cluster) == Len(cluster.signals) >= minClusterSize - 1

\* cluster.signals.length >= this.minClusterSize
Qualifies(cluster) == Len(cluster.signals) >= minClusterSize

\* clusters.filter(...).map(cluster => this.clusterToNarrative(cluster))
\*   .sort((a, b) => b.score - a.score)
ToNarratives(cls, sorted, nowDay) ==
  LET kept == SelectSeq([i \in 1..Len(cls) |-> i], LAMBDA i : Qualifies(cls[i]))
      mapped == [k \in 1..Len(kept) |->
                   clusterToNarrative(
                     cls[kept[k]],
                     [m \in 1..Len(cls[kept[k]].signals) |->
                        sorted[cls[kept[k]].signals[m]]],
                     kept[k], nowDay)]
  IN  SortDesc(mapped, Scores(mapped))

\* The end of buildClusters and the conversion of the clusters.
Convert ==
  /\ pc = "build"
  /\ idx > Len(sortedSignals)
  /\ narratives' = ToNarratives(clusters, sortedSignals, now)
  /\ pc' = "dedup"
  /\ UNCHANGED <<signals, now, sortedSignals, idx, clusters, assigned,
                 deduplicated, result>>
  /\ UNCHANGED <<simVars, keywordVars, detectorVars,
                 frameVars, pipelineVars>>

Deduplicate ==
  /\ pc = "dedup"
  /\ deduplicated' = deduplicateNarratives(narratives)
  /\ pc' = "rank"
  /\ UNCHANGED <<signals, now, sortedSignals, idx, clusters, assigned,
                 narratives, result>>
  /\ UNCHANGED <<simVars, keywordVars, detectorVars,
                 frameVars, pipelineVars>>

RankAndCap ==
  /\ pc = "rank"
  /\ result' = rankAndCap(deduplicated)
  /\ pc' = "done"
  /\ UNCHANGED <<signals, now, sortedSignals, idx, clusters, assigned,
                 narratives, deduplicated>>
  /\ UNCHANGED <<simVars, keywordVars, detectorVars,
                 frameVars, pipelineVars>>

Next == Enter \/ Assign \/ Convert \/ Deduplicate \/ RankAndCap

Spec == Init /\ [][Next]_vars

---------------------------------------------------------------------------
(* calculateSimilarity applied to one signal and one cluster.              *)

InitSim ==
  /\ simSignal \in SimSignalInputs
  /\ simCluster \in SimClusterInputs
  /\ simResult = Zero
  /\ pc = "sim"
  /\ signals = <<>>
  /\ now = Today
  /\ sortedSignals = <<>>
  /\ idx = 0
  /\ clusters = <<>>
  /\ assigned = {}
  /\ narratives = <<>>
  /\ deduplicated = <<>>
  /\ result = <<>>
  /\ IdleKeywords
  /\ IdleDetector
  /\ IdleFrame
  /\ IdlePipeline

ComputeSimilarity ==
  /\ pc = "sim"
  /\ simResult' = calculateSimilarity(simSignal, simCluster)
  /\ pc' = "simdone"
  /\ UNCHANGED <<simSignal, simCluster>>
  /\ UNCHANGED <<clusterVars, keywordVars, detectorVars,
                 frameVars, pipelineVars>>

NextSim == ComputeSimilarity

SpecSim == InitSim /\ [][NextSim]_vars

---------------------------------------------------------------------------
(* Scenario A: three similar signals of three source categories.           *)

\* The source categories of a Signal.
Sources == <<"onchain", "github", "twitter", "discord", "report">>

\* The keyword lists of the three signals.
ScenarioAKeywords ==
  <<<<"jupiter", "dex", "swap", "defi">>,
    <<"jupiter", "dex", "aggregator", "defi">>,
    <<"jupiter", "swap", "trading", "defi">>>>

Reverse(s) == [i \in 1..Len(s) |-> s[Len(s) + 1 - i]]

\* makeSignal({keywords, source}): the k-th signal, its keywords in the
\* order given or in the opposite order, with the scores of the fixture
\* (weight 1, normalizedWeight 0.5, recencyScore 0.8, crossSourceScore 1).
ScenarioASignal(k, source, reversed) ==
  Signal("test_" \o ToString(k), source, Today,
         IF reversed THEN Reverse(ScenarioAKeywords[k])
         ELSE ScenarioAKeywords[k],
         1000, 500, 800, 1000)

\* The three signals in every order, with every choice of three different
\* source categories, each keyword list in either order.
ScenarioABatches ==
  {[i \in 1..3 |-> ScenarioASignal(order[i], Sources[src[i]], rev[i])] :
     order \in {p \in [1..3 -> 1..3] : \A i, j \in 1..3 : p[i] = p[j] => i = j},
     src \in {f \in [1..3 -> 1..Len(Sources)] :
                \A i, j \in 1..3 : f[i] = f[j] => i = j},
     rev \in [1..3 -> BOOLEAN]}

InitScenarioA ==
  /\ signals \in ScenarioABatches
  /\ now = Today
  /\ pc = "start"
  /\ sortedSignals = <<>>
  /\ idx = 0
  /\ clusters = <<>>
  /\ assigned = {}
  /\ narratives = <<>>
  /\ deduplicated = <<>>
  /\ result = <<>>
  /\ IdleSim
  /\ IdleKeywords
  /\ IdleDetector
  /\ IdleFrame
  /\ IdlePipeline

SpecScenarioA == InitScenarioA /\ [][Next]_vars

---------------------------------------------------------------------------
(* isNoisyKeyword applied to one keyword.                                  *)

\* Keywords given to isNoisyKeyword: the ecosystem terms, the keys of the
\* alias table, the filler words, and keywords of each pattern the function
\* tests.
NoisyInputs ==
  ECOSYSTEM_TERMS \cup DOMAIN KEYWORD_ALIASES \cup NoisyWords
    \cup {"", "x", "ab", "12345", "007", "james09777", "raad05123", "Bob123",
          "iot3", "abc12", "123abc", "3d", "24h", "zk-proofs", "Looking",
          "aggregator", "launch"}

InitNoisy ==
  /\ noisyInput \in NoisyInputs
  /\ noisyResult = FALSE
  /\ normInput = <<>>
  /\ normResult = <<>>
  /\ themeInput = <<>>
  /\ themeResult = ""
  /\ pc = "noisy"
  /\ now = Today
  /\ IdleClusterer
  /\ IdleSim
  /\ IdleDetector
  /\ IdleFrame
  /\ IdlePipeline

ClassifyKeyword ==
  /\ pc = "noisy"
  /\ noisyResult' = isNoisyKeyword(noisyInput)
  /\ pc' = "noisydone"
  /\ UNCHANGED <<noisyInput, normInput, normResult, themeInput, themeResult>>
  /\ UNCHANGED <<clusterVars, simVars, detectorVars,
                 frameVars, pipelineVars>>

NextNoisy == ClassifyKeyword

SpecNoisy == InitNoisy /\ [][NextNoisy]_vars

---------------------------------------------------------------------------
(* normalizeKeywords applied to one keyword list.                          *)

\* Keywords of the lists given to normalizeKeywords: alias keys (of more and
\* of fewer than 4 characters), an ecosystem term in capitals with a space,
\* a short ecosystem term, the alias key and its canonical form of two
\* characters, a filler word, a name every object has as a property, a
\* keyword that is none of these, and an alias key whose canonical form is
\* an alias key.
NormWords ==
  {"dexes", "amm", "swap", "Jupiter ", "sol", "artificial-intelligence", "ai",
   "looking", "constructor", "aggregator", "cdp"}

NormInputs == SeqsUpTo(NormWords, MaxKeywords)

InitNormalize ==
  /\ normInput \in NormInputs
  /\ normResult = <<>>
  /\ noisyInput = ""
  /\ noisyResult = FALSE
  /\ themeInput = <<>>
  /\ themeResult = ""
  /\ pc = "normalize"
  /\ now = Today
  /\ IdleClusterer
  /\ IdleSim
  /\ IdleDetector
  /\ IdleFrame
  /\ IdlePipeline

NormalizeKeywords ==
  /\ pc = "normalize"
  /\ normResult' = normalizeKeywords(normInput)
  /\ pc' = "normalized"
  /\ UNCHANGED <<noisyInput, noisyResult, normInput, themeInput, themeResult>>
  /\ UNCHANGED <<clusterVars, simVars, detectorVars,
                 frameVars, pipelineVars>>

\* normalizeKeywords applied to the list it returned. An inherited property
\* in that list is a function or an object, and kw.toLowerCase() throws a
\* TypeError.
NormalizeAgain ==
  /\ pc = "normalized"
  /\ IF \E i \in 1..Len(normResult) :
          \E name \in DOMAIN InheritedProperties :
            normResult[i] = InheritedProperties[name]
     THEN /\ pc' = "threw"
          /\ UNCHANGED <<normInput, normResult>>
     ELSE /\ normInput' = normResult
          /\ normResult' = normalizeKeywords(normResult)
          /\ pc' = "renormalized"
  /\ UNCHANGED <<noisyInput, noisyResult, themeInput, themeResult>>
  /\ UNCHANGED <<clusterVars, simVars, detectorVars,
                 frameVars, pipelineVars>>

NextNormalize == NormalizeKeywords \/ NormalizeAgain

SpecNormalize == InitNormalize /\ [][NextNormalize]_vars

---------------------------------------------------------------------------
(* identifyTheme applied to one keyword list.                              *)

\* Keywords of the lists given to identifyTheme: terms of one theme, terms
\* of two themes (jito), a keyword that is part of terms of several themes
\* (transfer, metadata), a keyword that has a term as a part (mainnet has
\* ai), and a keyword that matches no theme.
ThemeWords ==
  {"liquid-staking", "jito", "marinade", "mev", "defi", "metadata",
   "transfer", "mainnet", "bundle", "aggregator"}

ThemeInputs == SeqsUpTo(ThemeWords, MaxKeywords)

InitTheme ==
  /\ themeInput \in ThemeInputs
  /\ themeResult = ""
  /\ noisyInput = ""
  /\ noisyResult = FALSE
  /\ normInput = <<>>
  /\ normResult = <<>>
  /\ pc = "theme"
  /\ now = Today
  /\ IdleClusterer
  /\ IdleSim
  /\ IdleDetector
  /\ IdleFrame
  /\ IdlePipeline

IdentifyTheme ==
  /\ pc = "theme"
  /\ themeResult' = identifyTheme(themeInput)
  /\ pc' = "themed"
  /\ UNCHANGED <<noisyInput, noisyResult, normInput, normResult, themeInput>>
  /\ UNCHANGED <<clusterVars, simVars, detectorVars,
                 frameVars, pipelineVars>>

NextTheme == IdentifyTheme

SpecTheme == InitTheme /\ [][NextTheme]_vars

---------------------------------------------------------------------------
(* processSignals applied to one batch.                                    *)

\* Signals of the batches given to processSignals: keywords shared across
\* sources, stop keywords, no keywords, stop keywords only, equal and
\* different weights, and a timestamp and a weight that are NaN.
ProcessPool ==
  {RawSignal("github_1", "github", Today - 1,
             <<"defi", "https", "Solana">>, 1000),
   RawSignal("twitter_1", "twitter", Today - 3, <<"defi", "jupiter">>, 3000),
   RawSignal("onchain_1", "onchain", Today, <<"jupiter">>, 1000),
   RawSignal("discord_1", "discord", Today - 10, <<>>, 2000),
   RawSignal("report_1", "report", NaN, <<"defi">>, 2000),
   RawSignal("github_2", "github", Today - 2, <<"airdrop">>, NaN),
   RawSignal("twitter_2", "twitter", Today - 4, <<"https", "GitHub">>, 1500)}

ProcessBatches == SeqsUpTo(ProcessPool, MaxDetectorBatch)

InitProcess ==
  /\ rawSignals \in ProcessBatches
  /\ topN = 0
  /\ detected = <<>>
  /\ pc = "process"
  /\ now = Today
  /\ IdleClusterer
  /\ IdleSim
  /\ IdleKeywords
  /\ IdleFrame
  /\ IdlePipeline

ProcessSignals ==
  /\ pc = "process"
  /\ \E processed \in processSignals(rawSignals, now) : detected' = processed
  /\ pc' = "processed"
  /\ UNCHANGED <<rawSignals, topN>>
  /\ UNCHANGED <<clusterVars, simVars, keywordVars,
                 frameVars, pipelineVars>>

NextProcess == ProcessSignals

SpecProcess == InitProcess /\ [][NextProcess]_vars

---------------------------------------------------------------------------
(* detectAnomalies applied to one batch.                                   *)

\* Signals of the batches given to detectAnomalies: two signals that share
\* one of their keywords, a signal with a keyword of its own, a signal
\* without keywords, and a signal with one keyword twice.
AnomalyPool ==
  {RawSignal("github_1", "github", Today - 1,
             <<"defi", "jupiter", "dex", "swap">>, 1000),
   RawSignal("twitter_1", "twitter", Today - 3,
             <<"defi", "airdrop", "points">>, 3000),
   RawSignal("onchain_1", "onchain", Today, <<"jito">>, 1000),
   RawSignal("discord_1", "discord", Today - 10, <<>>, 2000),
   RawSignal("report_1", "report", Today - 2, <<"defi", "defi">>, 2000)}

AnomalyBatches == SeqsUpTo(AnomalyPool, MaxDetectorBatch)

InitAnomalies ==
  /\ rawSignals \in AnomalyBatches
  /\ topN = 0
  /\ detected = <<>>
  /\ pc = "anomalies"
  /\ now = Today
  /\ IdleClusterer
  /\ IdleSim
  /\ IdleKeywords
  /\ IdleFrame
  /\ IdlePipeline

DetectAnomalies ==
  /\ pc = "anomalies"
  /\ detected' = detectAnomalies(rawSignals)
  /\ pc' = "detected"
  /\ UNCHANGED <<rawSignals, topN>>
  /\ UNCHANGED <<clusterVars, simVars, keywordVars,
                 frameVars, pipelineVars>>

NextAnomalies == DetectAnomalies

SpecAnomalies == InitAnomalies /\ [][NextAnomalies]_vars

---------------------------------------------------------------------------
(* extractTopKeywords applied to one batch.                                *)

\* The output of processSignals for three well-formed signals.
ProcessedThree ==
  CHOOSE processed \in
    processSignals(
      <<RawSignal("github_1", "github", Today - 1, <<"defi", "staking">>, 1000),
        RawSignal("twitter_1", "twitter", Today - 3, <<"defi", "jupiter">>,
                  3000),
        RawSignal("onchain_1", "onchain", Today, <<"jupiter">>, 1000)>>,
      Today) : TRUE

\* Signals of the batches given to extractTopKeywords: the three processed
\* signals, and a Signal that has not been through processSignals.
TopKeywordsPool ==
  Range(ProcessedThree)
    \cup {RawSignal("discord_1", "discord", Today - 10,
                    <<"defi", "airdrop">>, 2000)}

TopKeywordsBatches == SeqsUpTo(TopKeywordsPool, MaxDetectorBatch)

InitTopKeywords ==
  /\ rawSignals \in TopKeywordsBatches
  /\ topN \in 1..MaxTopN
  /\ detected = <<>>
  /\ pc = "top"
  /\ now = Today
  /\ IdleClusterer
  /\ IdleSim
  /\ IdleKeywords
  /\ IdleFrame
  /\ IdlePipeline

ExtractTopKeywords ==
  /\ pc = "top"
  /\ \E top \in extractTopKeywords(rawSignals, topN) : detected' = top
  /\ pc' = "topdone"
  /\ UNCHANGED <<rawSignals, topN>>
  /\ UNCHANGED <<clusterVars, simVars, keywordVars,
                 frameVars, pipelineVars>>

NextTopKeywords == ExtractTopKeywords

SpecTopKeywords == InitTopKeywords /\ [][NextTopKeywords]_vars

---------------------------------------------------------------------------
(* clusterSignals as a function of the batch, for its callers.             *)

\* The loop of buildClusters from the signal at index i on: cls are the
\* clusters so far, ids the set `assigned`.
RECURSIVE PlaceFrom(_, _, _, _)
PlaceFrom(sorted, i, cls, ids) ==
  IF i > Len(sorted) THEN cls
  ELSE IF IsAssigned(sorted[i], ids) THEN PlaceFrom(sorted, i + 1, cls, ids)
  ELSE
    LET signal == sorted[i]
        best == FindBestCluster(signal.keywords, cls, 1, 0, Zero)
        members == Append(cls[best].signals, i)
        placed ==
          IF best # 0
          THEN [cls EXCEPT ![best] =
                  [keywords |-> AddAll(cls[best].keywords, signal.keywords),
                   signals |-> members,
                   centroid |->
                     updateCentroid([m \in 1..Len(members) |->
                                       sorted[members[m]].keywords])]]
          ELSE Append(cls, [keywords |-> ToSet(signal.keywords),
                            signals |-> <<i>>,
                            centroid |-> signal.keywords])
    IN  PlaceFrom(sorted, i + 1, placed, ids \cup {signal.id})

\* buildClusters(signals), given sortedSignals: the clusters, their signals
\* as indices in sortedSignals.
buildClusters(sorted) == PlaceFrom(sorted, 1, <<>>, {})

\* clusterSignals(signals): the narratives, their signals as indices in the
\* sorted normalised batch.
clusterSignals(batch, nowDay) ==
  IF Len(batch) < minClusterSize THEN <<>>
  ELSE LET sorted == SortSignals(NormalizeSignals(batch))
       IN  rankAndCap(deduplicateNarratives(
             ToNarratives(buildClusters(sorted), sorted, nowDay)))


---------------------------------------------------------------------------
(* processSignals and clusterSignals on arrays and objects.                *)
(*                                                                         *)
(* The heap is the sequence of the arrays and objects allocated so far; an *)
(* address is an index in it. A signal object holds the address of its     *)
(* keywords array, an array of signals the addresses of its objects. A     *)
(* call is given the heap and the address of its argument and gives the    *)
(* heap afterwards and the address of what it returns. Temporaries that no *)
(* value returned refers to (Sets, Maps, the arrays between filter, map,   *)
(* sort and slice) are not allocated.                                      *)

ArrayCell(items) == [kind |-> "array", items |-> items]

ObjectCell(fields) == [kind |-> "object", fields |-> fields]

\* The signal at an address, its keywords read through.
SignalAt(h, o) ==
  [h[o].fields EXCEPT !.keywords = h[h[o].fields.keywords].items]

\* The signals of the array at an address.
BatchAt(h, a) == [i \in 1..Len(h[a].items) |-> SignalAt(h, h[a].items[i])]

\* Mutant of MapSignalsAt: the objects of the array are overwritten.
MapSignalsInPlace(h, a, mapped) ==
  LET n == Len(h[a].items)
  IN  [heap |->
         [c \in 1..Len(h) |->
            IF \E i \in 1..n : c = h[a].items[i]
            THEN LET i == CHOOSE j \in 1..n : c = h[a].items[j]
                 IN  ObjectCell([mapped[i] EXCEPT
                                   !.keywords = h[c].fields.keywords])
            ELSE IF \E i \in 1..n : c = h[h[a].items[i]].fields.keywords
            THEN LET i == CHOOSE j \in 1..n :
                             c = h[h[a].items[j]].fields.keywords
                 IN  ArrayCell(mapped[i].keywords)
            ELSE h[c]],
       ret |-> a]

\* signals.map(s => ({...s, keywords: ..., ...})), mapped[i] being the value
\* of the i-th new object: per signal a new keywords array and a new object,
\* then the new array.
MapSignalsAt(h, a, mapped) ==
  LET n == Len(h[a].items)
      base == Len(h)
  IN  [heap |->
         h \o [k \in 1..(2 * n) |->
                 IF k % 2 = 1
                 THEN ArrayCell(mapped[(k + 1) \div 2].keywords)
                 ELSE ObjectCell([mapped[k \div 2] EXCEPT
                                    !.keywords = base + k - 1])]
           \o <<ArrayCell([i \in 1..n |-> base + 2 * i])>>,
       ret |-> base + 2 * n + 1]

\* signals.map(signal => ({...signal, normalizedWeight, ...})): per signal a
\* new object that shares the keywords array of the old one, then the new
\* array.
MapScoresAt(h, a, mapped) ==
  LET n == Len(h[a].items)
      base == Len(h)
  IN  [heap |->
         h \o [i \in 1..n |->
                 ObjectCell([mapped[i] EXCEPT
                               !.keywords = h[h[a].items[i]].fields.keywords])]
           \o <<ArrayCell([i \in 1..n |-> base + i])>>,
       ret |-> base + n + 1]

\* processSignals(signals) for the array at address a: the heaps and
\* addresses it may leave (one, unless the sort meets NaN).
processSignalsAt(h, a, nowDay) ==
  IF Len(h[a].items) = 0
  THEN {[heap |-> Append(h, ArrayCell(<<>>)), ret |-> Len(h) + 1]}
  ELSE
    LET cleaned == MapSignalsAt(h, a, cleanKeywords(BatchAt(h, a)))
        values == ProcessEach(BatchAt(cleaned.heap, cleaned.ret), nowDay)
        processed == MapScoresAt(cleaned.heap, cleaned.ret, values)
        keys == [i \in 1..Len(values) |-> calculateTotalScore(values[i])]
    IN  {[heap |-> [processed.heap EXCEPT ![processed.ret].items = sorted],
          ret |-> processed.ret] :
           sorted \in SortOutcomes(processed.heap[processed.ret].items, keys)}

\* The clusters from the c-th on: for each its array `signals` (as the
\* pushes leave it) and the cluster object, whose centroid is the keywords
\* array of its signal when it has one signal and a new array otherwise.
\* addrs are the addresses of the cluster objects so far.
RECURSIVE ClustersAt(_, _, _, _, _)
ClustersAt(h, sortedSignalsAt, cls, c, addrs) ==
  IF c > Len(cls) THEN [heap |-> h, addrs |-> addrs]
  ELSE
    LET members ==
          ArrayCell([m \in 1..Len(cls[c].signals) |->
                       h[sortedSignalsAt].items[cls[c].signals[m]]])
        single == Len(cls[c].signals) = 1
        centroidAt ==
          IF single THEN h[members.items[1]].fields.keywords ELSE Len(h) + 2
        cluster ==
          ObjectCell([keywords |-> cls[c].keywords, signals |-> Len(h) + 1,
                      centroid |-> centroidAt])
        h1 == IF single THEN h \o <<members, cluster>>
              ELSE h \o <<members, ArrayCell(cls[c].centroid), cluster>>
    IN  ClustersAt(h1, sortedSignalsAt, cls, c + 1, Append(addrs, Len(h1)))

\* The narratives returned: for each its keywords array and the object,
\* whose signals are the array `signals` of its cluster; then the array.
NarrativesAt(h, clusterAddrs, list) ==
  LET n == Len(list)
      base == Len(h)
  IN  [heap |->
         h \o [k \in 1..(2 * n) |->
                 IF k % 2 = 1
                 THEN ArrayCell(list[(k + 1) \div 2].keywords)
                 ELSE ObjectCell([list[k \div 2] EXCEPT
                                    !.keywords = base + k - 1,
                                    !.signals =
                                      h[clusterAddrs[list[k \div 2].id]]
                                        .fields.signals])]
           \o <<ArrayCell([i \in 1..n |-> base + 2 * i])>>,
       ret |-> base + 2 * n + 1]

\* clusterSignals(signals) for the array at address a.
clusterSignalsAt(h, a, nowDay) ==
  IF Len(h[a].items) < minClusterSize
  THEN [heap |-> Append(h, ArrayCell(<<>>)), ret |-> Len(h) + 1]
  ELSE
    LET normalized == MapSignalsAt(h, a, NormalizeSignals(BatchAt(h, a)))
        values == BatchAt(normalized.heap, normalized.ret)
        \* [...signals].sort(...)
        h1 == Append(normalized.heap,
                     ArrayCell(SortDesc(normalized.heap[normalized.ret].items,
                                        [i \in 1..Len(values) |->
                                           TotalScore(values[i])])))
        sortedSignalsAt == Len(h1)
        sorted == BatchAt(h1, sortedSignalsAt)
        cls == buildClusters(sorted)
        built == ClustersAt(h1, sortedSignalsAt, cls, 1, <<>>)
        list == rankAndCap(deduplicateNarratives(
                  ToNarratives(cls, sorted, nowDay)))
    IN  NarrativesAt(built.heap, built.addrs, list)

\* The signals of the batches of the callers: three of one topic, and one
\* with a stop keyword.
FramePool ==
  <<TopicSignal(1, 1), TopicSignal(1, 2), TopicSignal(1, 3),
    Signal("jupiter_4", "report", Today - 4, <<"jupiter", "https", "swap">>,
           2000, 700, 600, 2000)>>

\* A batch: the places in FramePool of its signals.
FrameBatches == SeqsUpTo(1..Len(FramePool), MaxDetectorBatch)

\* One keywords array and one object per signal of the pool, then the array
\* of the batch; a signal that is twice in a batch is one object.
InitFrame ==
  /\ \E batch \in FrameBatches :
       heap = [k \in 1..(2 * Len(FramePool)) |->
                 IF k % 2 = 1
                 THEN ArrayCell(FramePool[(k + 1) \div 2].keywords)
                 ELSE ObjectCell([FramePool[k \div 2] EXCEPT
                                    !.keywords = k - 1])]
                \o <<ArrayCell([i \in 1..Len(batch) |-> 2 * batch[i]])>>
  /\ arg = 2 * Len(FramePool) + 1
  /\ ret = 0
  /\ pc = "frame"
  /\ now = Today
  /\ IdleClusterer
  /\ IdleSim
  /\ IdleKeywords
  /\ IdleDetector
  /\ IdlePipeline

\* The array the next call is given: the caller's array or, after
\* processSignals, the array processSignals returned.
CallInput == IF pc = "scored" THEN ret ELSE arg

\* const processed = detector.processSignals(allSignals)
FrameProcessSignals ==
  /\ pc = "frame"
  /\ \E out \in processSignalsAt(heap, arg, now) :
       /\ heap' = out.heap
       /\ ret' = out.ret
  /\ pc' = "scored"
  /\ UNCHANGED <<arg, now>>
  /\ UNCHANGED <<signals, sortedSignals, idx, clusters, assigned, narratives,
                 deduplicated, result>>
  /\ UNCHANGED <<simVars, keywordVars, detectorVars, pipelineVars>>

\* clusterer.clusterSignals(...) of the caller's array or of the array
\* processSignals returned.
FrameClusterSignals ==
  /\ pc \in {"frame", "scored"}
  /\ LET out == clusterSignalsAt(heap, CallInput, now)
     IN  /\ heap' = out.heap
         /\ ret' = out.ret
  /\ pc' = IF pc = "frame" THEN "clustered" ELSE "analyzed"
  /\ UNCHANGED <<arg, now>>
  /\ UNCHANGED <<signals, sortedSignals, idx, clusters, assigned, narratives,
                 deduplicated, result>>
  /\ UNCHANGED <<simVars, keywordVars, detectorVars, pipelineVars>>

NextFrame == FrameProcessSignals \/ FrameClusterSignals

SpecFrame == InitFrame /\ [][NextFrame]_vars


---------------------------------------------------------------------------
(* The refresh handler: five collectors, then the analysis.                *)

\* The collectors in the order the handler runs them, and the source
\* category of their signals.
Collectors ==
  <<[name |-> "github", source |-> "github"],
    [name |-> "onchain", source |-> "onchain"],
    [name |-> "twitter", source |-> "twitter"],
    [name |-> "reports", source |-> "report"],
    [name |-> "discord", source |-> "discord"]>>

\* The k-th signal of the collector c.
CollectorSignal(c, k) ==
  RawSignal(Collectors[c].name \o "_" \o ToString(k), Collectors[c].source,
            Today - k, <<"Jupiter", "swap", Cyclic(VariantWords, k)>>, 1000 * k)

\* A record without keywords, which the last collector may let through.
MalformedSignal ==
  [id |-> "discord_0", source |-> "discord", timestamp |-> Today,
   weight |-> 1000]

\* The arrays of signals the collector c may return.
CollectorReturns(c) ==
  {[k \in 1..n |-> CollectorSignal(c, k)] : n \in 0..MaxCollected}
    \cup (IF c = Len(Collectors) THEN {<<MalformedSignal>>} ELSE {})

\* signal.keywords.filter(...) of cleanKeywords throws a TypeError for a
\* signal that has no keywords.
AnalysisThrows(allSignals) ==
  \E i \in 1..Len(allSignals) : "keywords" \notin DOMAIN allSignals[i]

\* Mutant of AfterCollector: the failure of a collector reaches the outer
\* catch.
AfterCollectorRethrown(n, threw) ==
  IF threw THEN "failed"
  ELSE IF n = Len(Collectors) THEN "analyze" ELSE "collect"

\* The position after the try/catch of the n-th collector.
AfterCollector(n, threw) ==
  IF n = Len(Collectors) THEN "analyze" ELSE "collect"

InitRefresh ==
  /\ pc = "refresh"
  /\ results = <<>>
  /\ response = [status |-> 0]
  /\ now = Today
  /\ IdleClusterer
  /\ IdleSim
  /\ IdleKeywords
  /\ IdleDetector
  /\ IdleFrame

\* The check of the cron secret.
Authorize ==
  /\ pc = "refresh"
  /\ \/ /\ pc' = "responded"
        /\ response' = [status |-> 401]
     \/ /\ pc' = "collect"
        /\ UNCHANGED response
  /\ UNCHANGED <<results, now>>
  /\ UNCHANGED <<signals, sortedSignals, idx, clusters, assigned, narratives,
                 deduplicated, result>>
  /\ UNCHANGED <<simVars, keywordVars, detectorVars, frameVars>>

\* The try/catch of the next collector: it returns its signals, or throws
\* and the catch records an empty result with the message.
Collect ==
  /\ pc = "collect"
  /\ LET c == Len(results) + 1
     IN  \/ \E returned \in CollectorReturns(c) :
              /\ results' = Append(results, [source |-> Collectors[c].source,
                                             signals |-> returned,
                                             errors |-> <<>>])
              /\ pc' = AfterCollector(c, FALSE)
         \/ /\ results' = Append(results, [source |-> Collectors[c].source,
                                           signals |-> <<>>,
                                           errors |-> <<"e.message">>])
            /\ pc' = AfterCollector(c, TRUE)
  /\ UNCHANGED <<response, now>>
  /\ UNCHANGED <<signals, sortedSignals, idx, clusters, assigned, narratives,
                 deduplicated, result>>
  /\ UNCHANGED <<simVars, keywordVars, detectorVars, frameVars>>

\* allSignals: the signals of Object.values(results), one after the other.
AllSignals == Flatten([i \in 1..Len(results) |-> results[i].signals])

\* Step 2 of the handler and its response: nothing to analyse, or
\* processSignals and clusterSignals; an exception leads to the outer catch.
Analyze ==
  /\ pc = "analyze"
  /\ IF AllSignals = <<>>
     THEN /\ response' = [status |-> 200, success |-> TRUE, skipped |-> TRUE]
          /\ pc' = "responded"
          /\ UNCHANGED <<detected, result>>
     ELSE IF AnalysisThrows(AllSignals)
     THEN /\ pc' = "failed"
          /\ UNCHANGED <<response, detected, result>>
     ELSE \E processed \in processSignals(AllSignals, now) :
            /\ detected' = processed
            /\ result' = clusterSignals(processed, now)
            /\ response' = [status |-> 200, success |-> TRUE,
                            skipped |-> FALSE,
                            narrativesDetected |-> Len(result'),
                            totalSignals |-> Len(AllSignals)]
            /\ pc' = "responded"
  /\ UNCHANGED <<results, now, rawSignals, topN>>
  /\ UNCHANGED <<signals, sortedSignals, idx, clusters, assigned, narratives,
                 deduplicated>>
  /\ UNCHANGED <<simVars, keywordVars, frameVars>>

\* The outer catch.
Fail ==
  /\ pc = "failed"
  /\ response' = [status |-> 500, success |-> FALSE]
  /\ pc' = "responded"
  /\ UNCHANGED <<results, now>>
  /\ UNCHANGED <<signals, sortedSignals, idx, clusters, assigned, narratives,
                 deduplicated, result>>
  /\ UNCHANGED <<simVars, keywordVars, detectorVars, frameVars>>

NextRefresh == Authorize \/ Collect \/ Analyze \/ Fail

SpecRefresh == InitRefresh /\ [][NextRefresh]_vars


---------------------------------------------------------------------------
(* Properties of clusterSignals.                                           *)

Done == pc = "done"

\* The clusters with at least minClusterSize signals.
QualifyingClusters == {i \in 1..Len(clusters) : Qualifies(clusters[i])}

\* The ids of the signals of a cluster or narrative, one per member.
MemberIds(members) == [m \in 1..Len(members) |-> sortedSignals[members[m]].id]

\* The final score of a narrative of raw score n.score: multiplied by 0.4
\* when it has fewer than 2 source categories.
FinalScore(n) ==
  IF n.metrics.crossSourceCount < 2 THEN (n.score * 4) \div 10 ELSE n.score

\* The narratives of a list whose title has the theme prefix p.
WithPrefix(list, p) == {i \in 1..Len(list) : ThemePrefix(list[i].title) = p}

\* The number of narratives deduplication lets through, counted from the
\* titles alone: per theme prefix, the distinct normalized titles, 2 at most.
SurvivorCount(list) ==
  LET prefixes == {ThemePrefix(list[i].title) : i \in 1..Len(list)}
      perPrefix(p) ==
        Min(2, Cardinality({NormalizedTitle(list[i].title) :
                              i \in WithPrefix(list, p)}))
      RECURSIVE Total(_)
      Total(P) == IF P = {} THEN 0
                  ELSE LET p == CHOOSE q \in P : TRUE
                       IN  perPrefix(p) + Total(P \ {p})
  IN  Total(prefixes)

\* C1: for every input batch, the list clusterSignals returns has at most
\* maxNarratives (10) narratives.
C1_OutputCapped == Done => Len(result) <= maxNarratives

\* C1 witness: a run in which more than 10 narratives reached the cap and
\* 10 were returned.
C1_Witness ==
  Done /\ Len(deduplicated) > maxNarratives /\ Len(result) = maxNarratives

\* C2: every narrative returned has at least minClusterSize (3) signals,
\* and a batch of fewer than 3 signals yields the empty list.
C2_MinClusterSize ==
  Done =>
    /\ \A i \in 1..Len(result) : Len(result[i].signals) >= minClusterSize
    /\ Len(signals) < minClusterSize => result = <<>>

\* C2 witness: a run that returned a narrative and discarded a cluster of
\* fewer than 3 signals.
C2_Witness ==
  /\ Done
  /\ result # <<>>
  /\ \E i \in 1..Len(clusters) : Len(clusters[i].signals) < minClusterSize

\* No signal id is placed twice: not twice in one cluster, not in two.
NoSharedSignal(cls) ==
  \A i, j \in 1..Len(cls) :
    \A a \in 1..Len(cls[i].signals), b \in 1..Len(cls[j].signals) :
      (i # j \/ a # b) =>
        /\ cls[i].signals[a] # cls[j].signals[b]
        /\ sortedSignals[cls[i].signals[a]].id # sortedSignals[cls[j].signals[b]].id

\* Every cluster is still there, at its place, with the signals it had, in
\* the order it had them, as the first of its signals.
ClustersOnlyGrow(old, new) ==
  /\ Len(new) >= Len(old)
  /\ \A i \in 1..Len(old) :
       /\ Len(new[i].signals) >= Len(old[i].signals)
       /\ SubSeq(new[i].signals, 1, Len(old[i].signals)) = old[i].signals

\* No signal id is in two of the narratives returned.
NarrativesDisjoint ==
  \A i, j \in 1..Len(result) :
    i # j => Range(MemberIds(result[i].signals))
               \cap Range(MemberIds(result[j].signals)) = {}

\* C3: during the greedy pass and at its end every signal is in at most one
\* cluster; a signal once assigned is never moved or removed, clusters are
\* never merged, and no signal is in two narratives of the output.
C3_AssignmentFinal ==
  [][/\ NoSharedSignal(clusters')
     /\ ClustersOnlyGrow(clusters, clusters')
     /\ Done' => NarrativesDisjoint']_vars

\* C3 witness: the pass has skipped a signal whose id was already placed,
\* and holds several clusters, one of them with several signals.
C3_Witness ==
  /\ pc = "build"
  /\ idx > 1
  /\ Cardinality(assigned) < idx - 1
  /\ Len(clusters) >= 2
  /\ \E i \in 1..Len(clusters) : Len(clusters[i].signals) >= 2

\* C4: no two narratives of the output have the same normalized title.
C4_DistinctTitles ==
  Done =>
    \A i, j \in 1..Len(result) :
      i # j => NormalizedTitle(result[i].title) # NormalizedTitle(result[j].title)

\* C4 witness: two qualifying clusters had narratives of different titles
\* with the same normalized title, and one of them was returned among others.
C4_Witness ==
  /\ Done
  /\ Len(result) >= 2
  /\ \E i, j \in 1..Len(narratives) :
       /\ i # j
       /\ narratives[i].title # narratives[j].title
       /\ NormalizedTitle(narratives[i].title) = NormalizedTitle(narratives[j].title)
       /\ \E k \in 1..Len(result) : result[k].id = narratives[i].id

\* C5: at most 2 narratives of the output have the same theme prefix.
C5_ThemeCap ==
  Done =>
    \A k \in 1..Len(result) :
      Cardinality(WithPrefix(result, ThemePrefix(result[k].title))) <= 2

\* C5 witness: more than 2 narratives of distinct normalized titles had one
\* theme prefix, and exactly 2 narratives with it were returned.
C5_Witness ==
  /\ Done
  /\ \E k \in 1..Len(result) :
       LET p == ThemePrefix(result[k].title)
       IN  /\ Cardinality(WithPrefix(result, p)) = 2
           /\ Cardinality({NormalizedTitle(narratives[i].title) :
                             i \in WithPrefix(narratives, p)}) > 2

\* C6 as claimed: more than 10 qualifying clusters give exactly 10
\* narratives.
C6_Original ==
  Done /\ Cardinality(QualifyingClusters) > maxNarratives
    => Len(result) = maxNarratives

\* C6 amended: more than 10 qualifying clusters of which at least 10
\* narratives survive deduplication give exactly 10 narratives.
C6_ExactlyTenSurvivors ==
  /\ Done
  /\ Cardinality(QualifyingClusters) > maxNarratives
  /\ SurvivorCount(narratives) >= maxNarratives
  => Len(result) = maxNarratives

\* C6 witness: more than 10 qualifying clusters, some of their narratives
\* dropped by deduplication, at least 10 left.
C6_Witness ==
  /\ Done
  /\ Cardinality(QualifyingClusters) > maxNarratives
  /\ SurvivorCount(narratives) >= maxNarratives
  /\ SurvivorCount(narratives) < Len(narratives)

\* C7: the output is in non-increasing order of final score, and no
\* narrative removed by the cap has a final score above that of a
\* narrative kept.
C7_RankedByFinalScore ==
  Done =>
    /\ \A i \in 1..(Len(result) - 1) : result[i].score >= result[i + 1].score
    /\ \A d \in 1..Len(deduplicated) :
         (\A k \in 1..Len(result) : result[k].id # deduplicated[d].id) =>
           \A k \in 1..Len(result) :
             FinalScore(deduplicated[d]) <= result[k].score

\* C7 witness: the cap removed a narrative, and the penalty put a narrative
\* behind one of lower raw score.
C7_Witness ==
  /\ Done
  /\ Len(deduplicated) > Len(result)
  /\ \E i, j \in 1..Len(deduplicated) :
       /\ i < j
       /\ \E k, l \in 1..Len(result) :
            /\ l < k
            /\ result[k].id = deduplicated[i].id
            /\ result[l].id = deduplicated[j].id

\* Two narratives that differ in nothing the score reads but the number of
\* source categories: a has at least 2, b has 1.
MultiVersusSingle(a, b) ==
  /\ a.metrics.velocity = b.metrics.velocity
  /\ a.metrics.recency = b.metrics.recency
  /\ a.metrics.keyVoiceMentions = b.metrics.keyVoiceMentions
  /\ Len(a.signals) = Len(b.signals)
  /\ a.metrics.crossSourceCount >= 2
  /\ b.metrics.crossSourceCount = 1

\* C8: of two narratives of one output with equal velocity, recency,
\* keyVoiceMentions and signal count, the one with crossSourceCount >= 2
\* has a strictly greater final score than the one with crossSourceCount 1.
C8_MultiSourceAhead ==
  Done =>
    \A i, j \in 1..Len(result) :
      MultiVersusSingle(result[i], result[j]) => result[i].score > result[j].score

\* C8 witness: an output with such a pair.
C8_Witness ==
  Done /\ \E i, j \in 1..Len(result) : MultiVersusSingle(result[i], result[j])

---------------------------------------------------------------------------
(* Properties of calculateSimilarity.                                      *)

SimDone == pc = "simdone"

\* C9: the similarity is the same with the two keyword sets swapped, and
\* lies in [0, 1].
C9_SymmetricBounded ==
  SimDone =>
    /\ simResult = calculateSimilarity(simCluster, ToSet(simSignal))
    /\ simResult[2] > 0
    /\ 0 <= simResult[1]
    /\ simResult[1] <= simResult[2]

\* C9 witness: two different keyword sets of different weights that
\* overlap, so that the similarity is strictly between 0 and 1.
C9_Witness ==
  /\ SimDone
  /\ 0 < simResult[1]
  /\ simResult[1] < simResult[2]
  /\ SumWeights(ToSet(simSignal)) # SumWeights(simCluster)

\* C10 as claimed: identical keyword sets have similarity 1.0.
C10_Original ==
  SimDone /\ Range(simSignal) = Range(simCluster) => FracEq(simResult, One)

\* C10 amended: identical non-empty keyword sets have similarity 1.0.
C10_IdenticalNonEmpty ==
  SimDone /\ Range(simSignal) = Range(simCluster) /\ simCluster # <<>>
    => FracEq(simResult, One)

\* C10 witness: identical keyword sets of several keywords, among them an
\* ecosystem term, the signal's array in another order than the cluster's.
C10_Witness ==
  /\ SimDone
  /\ Range(simSignal) = Range(simCluster)
  /\ Len(simCluster) >= 2
  /\ simSignal # simCluster
  /\ \E i \in 1..Len(simCluster) : simCluster[i] \in ECOSYSTEM_TERMS

---------------------------------------------------------------------------
(* Scenario A.                                                             *)

\* C11: three signals of equal scores with the keyword sets
\* {jupiter,dex,swap,defi}, {jupiter,dex,aggregator,defi} and
\* {jupiter,swap,trading,defi} and three different source categories give
\* exactly one narrative, whose keywords contain "jupiter" and whose
\* crossSourceCount is 3.
C11_ScenarioA ==
  Done =>
    /\ Len(result) = 1
    /\ "jupiter" \in Range(result[1].keywords)
    /\ result[1].metrics.crossSourceCount = 3

\* C11 witness: the run of the three signals in the order and with the
\* sources of the test has returned, the three signals in one cluster.
C11_Witness ==
  /\ Done
  /\ [i \in 1..3 |-> signals[i].keywords] = ScenarioAKeywords
  /\ [i \in 1..3 |-> signals[i].source] = <<"github", "onchain", "discord">>
  /\ Len(clusters) = 1
  /\ Len(result) = 1
  /\ Len(result[1].signals) = 3

---------------------------------------------------------------------------
(* Properties of isNoisyKeyword.                                           *)

NoisyDone == pc = "noisydone"

\* C15: isNoisyKeyword returns false for every keyword of ECOSYSTEM_TERMS.
C15_Original == NoisyDone /\ noisyInput \in ECOSYSTEM_TERMS => ~noisyResult

---------------------------------------------------------------------------
(* Properties of normalizeKeywords.                                        *)

NormDone == pc = "normalized"

\* The form of an input keyword the function works with: lowercased (and
\* trimmed).
Lowercased(keyword) == Trim(ToLowerCase(keyword))

\* The input keywords that are not noisy, lowercased.
KeptInputs ==
  {Lowercased(normInput[i]) : i \in 1..Len(normInput)}
    \ {k \in {Lowercased(normInput[i]) : i \in 1..Len(normInput)} :
         isNoisyKeyword(k)}

\* The keywords the output is to hold: the canonical alias of every kept
\* keyword that is a key of the alias table, and every kept keyword that is
\* an ecosystem term or longer than 3 characters.
ExpectedKeywords ==
  {KEYWORD_ALIASES[k] : k \in KeptInputs \cap DOMAIN KEYWORD_ALIASES}
    \cup {k \in KeptInputs : k \in ECOSYSTEM_TERMS \/ Len(k) > 3}

\* C16: for every input keyword that is not noisy the output of
\* normalizeKeywords contains its canonical alias when the lowercased keyword
\* is a key of the alias table, and the lowercased keyword when it is an
\* ecosystem term or longer than 3 characters; the output contains nothing
\* else and no keyword twice.
C16_Original ==
  NormDone =>
    /\ Range(normResult) = ExpectedKeywords
    /\ \A i, j \in 1..Len(normResult) : normResult[i] = normResult[j] => i = j

\* C17: the output of normalizeKeywords contains no keyword that
\* isNoisyKeyword classifies as noisy.
C17_Original ==
  NormDone => \A i \in 1..Len(normResult) : ~isNoisyKeyword(normResult[i])

---------------------------------------------------------------------------
(* Properties of identifyTheme.                                            *)

ThemeDone == pc = "themed"

\* t is a part of s.
IsPartOf(t, s) ==
  \E i \in 1..(Len(s) - Len(t) + 1) : SubSeq(s, i, i + Len(t) - 1) = t

\* The number of input keywords that match a term of the t-th theme.
MatchCount(t) ==
  Cardinality({i \in 1..Len(themeInput) :
                 \E j \in 1..Len(Themes[t].terms) :
                   \/ IsPartOf(Themes[t].terms[j], themeInput[i])
                   \/ IsPartOf(themeInput[i], Themes[t].terms[j])})

\* The theme the claim describes: the earliest theme of the table with the
\* largest count, "Emerging Technology" when every count is 0.
ClaimedTheme ==
  IF \A t \in 1..Len(Themes) : MatchCount(t) = 0
  THEN "Emerging Technology"
  ELSE LET t == CHOOSE u \in 1..Len(Themes) :
                  /\ \A v \in 1..Len(Themes) : MatchCount(v) <= MatchCount(u)
                  /\ \A v \in 1..(u - 1) : MatchCount(v) < MatchCount(u)
       IN  Themes[t].theme

\* C18: identifyTheme returns the theme with the largest number of matching
\* input keywords (a keyword matches a term when one is a part of the
\* other), the earliest of the table among those with the largest number,
\* and "Emerging Technology" when no keyword matches; for
\* <<"liquid-staking", "jito", "marinade">> it returns "Liquid Staking".
C18_ThemeArgmax ==
  ThemeDone =>
    /\ themeResult = ClaimedTheme
    /\ themeInput = <<"liquid-staking", "jito", "marinade">>
         => themeResult = "Liquid Staking"

\* C18 witness: two themes have the largest number of matching keywords,
\* more than 0, and the earlier one was returned.
C18_Witness ==
  /\ ThemeDone
  /\ \E t, u \in 1..Len(Themes) :
       /\ t < u
       /\ MatchCount(t) = MatchCount(u)
       /\ MatchCount(t) > 0
       /\ \A v \in 1..Len(Themes) : MatchCount(v) <= MatchCount(t)
       /\ themeResult = Themes[t].theme

---------------------------------------------------------------------------
(* Properties of processSignals.                                           *)

ProcessDone == pc = "processed"

\* The weights of the input batch.
InputWeights == [i \in 1..Len(rawSignals) |-> rawSignals[i].weight]

\* (weight - min) / (max - min) over the input batch, in milli, and 0.5 when
\* all the weights are equal; not a number when a weight is not a number.
MinMaxNormalized(weight) ==
  IF \E i \in 1..Len(InputWeights) : IsNaN(InputWeights[i]) THEN NaN
  ELSE
    LET lo == CHOOSE w \in Range(InputWeights) :
                \A v \in Range(InputWeights) : w <= v
        hi == CHOOSE w \in Range(InputWeights) :
                \A v \in Range(InputWeights) : v <= w
    IN  IF lo = hi THEN 500 ELSE ((weight - lo) * 1000) \div (hi - lo)

\* x is a number of [0, 1], in milli.
InUnitInterval(x) == ~IsNaN(x) /\ 0 <= x /\ x <= 1000

\* C12: in every output of processSignals the normalizedWeight of each
\* signal is the min-max normalization of its weight over the input batch,
\* lies in [0, 1], and is 0.5 when all the weights of the batch are equal.
C12_Original ==
  ProcessDone =>
    \A i \in 1..Len(detected) :
      /\ detected[i].normalizedWeight = MinMaxNormalized(detected[i].weight)
      /\ InUnitInterval(detected[i].normalizedWeight)

\* 0.3 normalizedWeight + 0.4 recencyScore + 0.3 crossSourceScore, in
\* ten-thousandths; not a number when one of the three is not a number.
CombinedScore(s) ==
  IF IsNaN(s.normalizedWeight) \/ IsNaN(s.recencyScore)
       \/ IsNaN(s.crossSourceScore)
  THEN NaN
  ELSE 3 * s.normalizedWeight + 4 * s.recencyScore + 3 * s.crossSourceScore

\* a >= b as numbers: false when either is not a number.
NumberGe(a, b) == ~IsNaN(a) /\ ~IsNaN(b) /\ a >= b

\* C13: processSignals returns one record per input signal, with the ids of
\* the input and no other, in non-increasing order of combined score; the
\* empty batch gives the empty list.
C13_Original ==
  ProcessDone =>
    /\ Len(detected) = Len(rawSignals)
    /\ \A id \in {rawSignals[i].id : i \in 1..Len(rawSignals)} :
         Cardinality({i \in 1..Len(detected) : detected[i].id = id})
           = Cardinality({i \in 1..Len(rawSignals) : rawSignals[i].id = id})
    /\ \A i \in 1..(Len(detected) - 1) :
         NumberGe(CombinedScore(detected[i]), CombinedScore(detected[i + 1]))

\* A batch with a timestamp or a weight that is not a finite number.
Malformed(batch) ==
  \E i \in 1..Len(batch) : IsNaN(batch[i].timestamp) \/ IsNaN(batch[i].weight)

\* C14: given a batch with a timestamp or a weight that is not a finite
\* number, processSignals fails with an error: it does not return records.
C14_Original == Malformed(rawSignals) => ~ProcessDone

---------------------------------------------------------------------------
(* Properties of detectAnomalies.                                          *)

AnomaliesDone == pc = "detected"

\* The keywords of the batch.
BatchKeywords ==
  UNION {Range(rawSignals[i].keywords) : i \in 1..Len(rawSignals)}

\* The frequency of a keyword across the batch.
Frequency(keyword) ==
  SumSeq([i \in 1..Len(rawSignals) |->
            Cardinality({j \in 1..Len(rawSignals[i].keywords) :
                           rawSignals[i].keywords[j] = keyword})])

RECURSIVE SumOver(_, _)
SumOver(S, square) ==
  IF S = {} THEN 0
  ELSE LET k == CHOOSE x \in S : TRUE
       IN  (IF square THEN Frequency(k) * Frequency(k) ELSE Frequency(k))
             + SumOver(S \ {k}, square)

\* Frequency(keyword) > mean + 2 * standard deviation of the frequencies of
\* the n keywords of the batch, the variance taken as the mean of the
\* squares minus the square of the mean, all multiplied by n^2.
ExceedsTwoDeviations(keyword) ==
  LET n == Cardinality(BatchKeywords)
      sum == SumOver(BatchKeywords, FALSE)
      squares == SumOver(BatchKeywords, TRUE)
      excess == n * Frequency(keyword) - sum
  IN  excess > 0 /\ excess * excess > 4 * (n * squares - sum * sum)

\* C19: detectAnomalies returns, in input order, the signals with a keyword
\* whose frequency across the batch is strictly greater than the mean plus
\* 2 standard deviations of the keyword frequencies, and the empty list when
\* the batch has no keyword or all the frequencies are equal.
C19_AnomalySignals ==
  AnomaliesDone =>
    /\ detected =
         SelectSeq(rawSignals,
                   LAMBDA s : \E k \in Range(s.keywords) :
                                ExceedsTwoDeviations(k))
    /\ (\A k1, k2 \in BatchKeywords : Frequency(k1) = Frequency(k2))
         => detected = <<>>

\* C19 witness: a batch of which some signals were returned and a signal
\* with keywords was not.
C19_Witness ==
  /\ AnomaliesDone
  /\ detected # <<>>
  /\ \E i \in 1..Len(rawSignals) :
       /\ rawSignals[i].keywords # <<>>
       /\ rawSignals[i] \notin Range(detected)

---------------------------------------------------------------------------
(* Properties of extractTopKeywords.                                       *)

TopKeywordsDone == pc = "topdone"

\* The combined score of a signal, zero when its score fields are absent.
ScoreOrZero(s) ==
  IF undefined \in {s.normalizedWeight, s.recencyScore, s.crossSourceScore}
  THEN 0
  ELSE CombinedScore(s)

\* The sum of the combined scores of the signals of the batch that contain
\* the keyword.
AccumulatedScore(keyword) ==
  SumSeq([i \in 1..Len(rawSignals) |->
            IF keyword \in Range(rawSignals[i].keywords)
            THEN ScoreOrZero(rawSignals[i])
            ELSE 0])

\* C20: extractTopKeywords returns at most topN entries, one per distinct
\* keyword, in non-increasing order of accumulated score, the accumulated
\* score of a keyword being the sum of the combined scores of the signals
\* that contain it, with zero for a signal whose score fields are absent.
C20_Original ==
  TopKeywordsDone =>
    /\ Len(detected) <= topN
    /\ \A i, j \in 1..Len(detected) :
         detected[i].keyword = detected[j].keyword => i = j
    /\ \A i \in 1..Len(detected) :
         detected[i].score = AccumulatedScore(detected[i].keyword)
    /\ \A i \in 1..(Len(detected) - 1) :
         NumberGe(detected[i].score, detected[i + 1].score)

---------------------------------------------------------------------------
(* Properties of the greedy pass of buildClusters.                         *)

\* The signal at idx is about to be placed by the loop of buildClusters.
Placing ==
  /\ pc = "build"
  /\ idx <= Len(sortedSignals)
  /\ sortedSignals[idx].id \notin assigned

\* The similarity of the signal at index i to the cluster c, as it is now.
SimilarityTo(i, c) ==
  calculateSimilarity(sortedSignals[i].keywords, clusters[c].keywords)

\* The clusters whose similarity to the signal at index i is at least the
\* threshold.
Eligible(i) ==
  {c \in 1..Len(clusters) : FracGe(SimilarityTo(i, c), similarityThreshold)}

\* The eligible cluster of highest similarity to the signal at index i, the
\* one created first among those of highest similarity; 0 when none is
\* eligible.
HighestCluster(i) ==
  IF Eligible(i) = {} THEN 0
  ELSE CHOOSE c \in Eligible(i) :
         \A d \in Eligible(i) :
           \/ FracGt(SimilarityTo(i, c), SimilarityTo(i, d))
           \/ FracEq(SimilarityTo(i, c), SimilarityTo(i, d)) /\ c <= d

\* C21: in the greedy pass a signal joins the cluster of highest weighted
\* Jaccard similarity to it when that similarity is at least 0.25, the one
\* created first among several of highest similarity, and starts a new
\* singleton cluster when no cluster reaches the threshold.
C21_BestClusterChosen ==
  [][Placing =>
       LET h == HighestCluster(idx)
       IN  IF h = 0
           THEN /\ Len(clusters') = Len(clusters) + 1
                /\ SubSeq(clusters', 1, Len(clusters)) = clusters
                /\ clusters'[Len(clusters')].signals = <<idx>>
           ELSE /\ Len(clusters') = Len(clusters)
                /\ clusters'[h].signals = Append(clusters[h].signals, idx)
                /\ \A c \in 1..Len(clusters) :
                     c # h => clusters'[c] = clusters[c]]_vars

\* The keywords a cluster had before its last signal joined it.
KeywordsBeforeLast(c) ==
  LET members == clusters[c].signals
  IN  ToSet(Flatten(MemberKeywords(SubSeq(members, 1, Len(members) - 1))))

\* C21 witness: the signal placed last joined a cluster that tied, for the
\* highest similarity, with a cluster created later.
C21_Witness ==
  /\ pc = "build"
  /\ \E c, d \in 1..Len(clusters) :
       /\ c < d
       /\ Len(clusters[c].signals) >= 2
       /\ clusters[c].signals[Len(clusters[c].signals)] = idx - 1
       /\ LET kws == sortedSignals[idx - 1].keywords
              joined == calculateSimilarity(kws, KeywordsBeforeLast(c))
          IN  /\ FracGe(joined, similarityThreshold)
              /\ FracEq(joined, calculateSimilarity(kws, clusters[d].keywords))

\* The keywords of the signals of the cluster c, signal by signal.
ClusterOccurrences(c) == Flatten(MemberKeywords(clusters[c].signals))

\* The frequency of a keyword in the cluster c: 2 per occurrence of an
\* ecosystem term, 1 per occurrence of any other keyword.
WeightedCount(c, kw) == KeywordWeight(kw) * Count(ClusterOccurrences(c), kw)

\* The place at which a keyword is first seen in the cluster c.
FirstSeen(c, kw) ==
  CHOOSE i \in 1..Len(ClusterOccurrences(c)) :
    /\ ClusterOccurrences(c)[i] = kw
    /\ \A j \in 1..(i - 1) : ClusterOccurrences(c)[j] # kw

\* The keyword a ranks before the keyword b in the cluster c.
RanksBefore(c, a, b) ==
  \/ WeightedCount(c, a) > WeightedCount(c, b)
  \/ /\ WeightedCount(c, a) = WeightedCount(c, b)
     /\ FirstSeen(c, a) < FirstSeen(c, b)

\* The list is the top 10 of the keywords of the cluster c by frequency, in
\* descending order, ties in first-seen order.
IsTopTen(c, list) ==
  LET all == Range(ClusterOccurrences(c))
  IN  /\ Range(list) \subseteq all
      /\ Len(list) = Min(10, Cardinality(all))
      /\ \A i, j \in 1..Len(list) :
           i < j => RanksBefore(c, list[i], list[j])
      /\ \A kw \in all \ Range(list) :
           \A i \in 1..Len(list) : RanksBefore(c, list[i], kw)

\* C22 as stated: after every assignment step the centroid of every cluster
\* is the list of its top-10 keywords by frequency, so has 10 keywords at
\* most.
C22_Original ==
  \A c \in 1..Len(clusters) : IsTopTen(c, clusters[c].centroid)

\* C22, amended: after every assignment step the centroid of every cluster
\* of two signals or more is the list of its top-10 keywords by frequency,
\* and the centroid of a cluster of one signal is the keyword list of that
\* signal, as it is.
C22_CentroidTopTen ==
  \A c \in 1..Len(clusters) :
    IF Len(clusters[c].signals) >= 2
    THEN IsTopTen(c, clusters[c].centroid)
    ELSE clusters[c].centroid = sortedSignals[clusters[c].signals[1]].keywords

\* C22 witness: a cluster of several signals and more than 10 keywords, with
\* a centroid of 10, and a cluster of one signal whose centroid is not in
\* descending order of frequency.
C22_Witness ==
  /\ \E c \in 1..Len(clusters) :
       /\ Len(clusters[c].signals) >= 2
       /\ Len(clusters[c].keywords) > 10
       /\ Len(clusters[c].centroid) = 10
  /\ \E c \in 1..Len(clusters) :
       /\ Len(clusters[c].signals) = 1
       /\ ~IsTopTen(c, clusters[c].centroid)

---------------------------------------------------------------------------
(* Properties of deduplicateNarratives within clusterSignals.              *)

Deduplicated == pc \in {"rank", "done"}

\* The places in narratives of the narratives deduplication accepted.
Accepted ==
  {k \in 1..Len(narratives) :
     \E j \in 1..Len(deduplicated) : deduplicated[j].id = narratives[k].id}

\* The place in narratives of an accepted narrative.
PlaceOf(n) == CHOOSE k \in 1..Len(narratives) : narratives[k].id = n.id

\* The narrative at place k has the normalized title of a narrative
\* accepted before it.
TitleTaken(k) ==
  \E j \in Accepted :
    /\ j < k
    /\ NormalizedTitle(narratives[j].title) = NormalizedTitle(narratives[k].title)

\* Two narratives accepted before the one at place k have its theme prefix.
ThemeFull(k) ==
  Cardinality({j \in Accepted :
                 /\ j < k
                 /\ ThemePrefix(narratives[j].title)
                      = ThemePrefix(narratives[k].title)}) >= 2

\* C23: deduplication visits the narratives in descending order of raw
\* score, drops a narrative exactly when an accepted narrative has its
\* normalized title or two accepted narratives have its theme prefix, and
\* keeps the accepted narratives in their relative order.
C23_DeduplicationOrder ==
  Deduplicated =>
    /\ \A k, l \in 1..Len(narratives) :
         k < l => narratives[k].score >= narratives[l].score
    /\ \A k \in 1..Len(narratives) :
         k \notin Accepted <=> (TitleTaken(k) \/ ThemeFull(k))
    /\ Len(deduplicated) = Cardinality(Accepted)
    /\ \A i \in 1..Len(deduplicated) :
         deduplicated[i] = narratives[PlaceOf(deduplicated[i])]
    /\ \A i, j \in 1..Len(deduplicated) :
         i < j => PlaceOf(deduplicated[i]) < PlaceOf(deduplicated[j])

\* C23 witness: of narratives of different raw scores, one was dropped for
\* its title, one for its theme prefix alone, and one was accepted after a
\* dropped one.
C23_Witness ==
  /\ Deduplicated
  /\ Len(narratives) >= 2
  /\ narratives[1].score > narratives[Len(narratives)].score
  /\ \E k \in 1..Len(narratives) : TitleTaken(k)
  /\ \E k \in 1..Len(narratives) : ThemeFull(k) /\ ~TitleTaken(k)
  /\ \E k, l \in 1..Len(narratives) :
       k < l /\ k \notin Accepted /\ l \in Accepted

---------------------------------------------------------------------------
(* Properties of the scores of the narratives returned.                    *)

\* The signals of a narrative.
MemberRecords(n) == [m \in 1..Len(n.signals) |-> sortedSignals[n.signals[m]]]

\* The number of distinct source categories among the signals of a
\* narrative.
SourceCount(n) ==
  Cardinality({MemberRecords(n)[m].source : m \in 1..Len(n.signals)})

\* The number of twitter signals of weight 2.5 or more of a narrative.
KeyVoiceCount(n) ==
  Cardinality({m \in 1..Len(n.signals) :
                 /\ MemberRecords(n)[m].source = "twitter"
                 /\ MemberRecords(n)[m].weight >= 2500})

\* raw = 20*crossSourceCount + 15*velocity + 20*recency + 5*keyVoiceMentions
\*       + min(signalCount/2, 15), in milli.
RawScore(n) ==
  20 * 1000 * SourceCount(n)
  + 15 * n.metrics.velocity
  + 20 * n.metrics.recency
  + 5 * 1000 * KeyVoiceCount(n)
  + Min((1000 * Len(n.signals)) \div 2, 15 * 1000)

\* The narrative k of deduplicated is among the narratives returned.
Returned(k) ==
  \E i \in 1..Len(result) : result[i].id = deduplicated[k].id

---------------------------------------------------------------------------
(* Properties of the crossSourceScore of processSignals.                   *)

\* The keywords of a signal that are not on the stop list.
Cleaned(s) ==
  SelectSeq(s.keywords, LAMBDA kw : ToLowerCase(kw) \notin STOP_KEYWORDS)

\* The signal of the input batch that has the id of an output signal.
InputOf(s) ==
  rawSignals[CHOOSE i \in 1..Len(rawSignals) : rawSignals[i].id = s.id]

\* The source categories of the batch that have a signal with the keyword.
SourcesHaving(kw) ==
  {rawSignals[i].source :
     i \in {j \in 1..Len(rawSignals) : kw \in Range(Cleaned(rawSignals[j]))}}

\* The sum, over the cleaned keywords, of the number of source categories
\* having the keyword, divided by the number of cleaned keywords, in milli.
MeanSourceCount(cleaned) ==
  IF cleaned = <<>> THEN 0
  ELSE (1000 * SumSeq([k \in 1..Len(cleaned) |->
                         Cardinality(SourcesHaving(cleaned[k]))]))
         \div Len(cleaned)

\* C25: in every output of processSignals the crossSourceScore of a signal
\* is the mean, over its cleaned keywords, of the number of distinct source
\* categories of the batch having the keyword, and 0 when it has no cleaned
\* keyword.
C25_CrossSourceScore ==
  ProcessDone =>
    \A i \in 1..Len(detected) :
      detected[i].crossSourceScore = MeanSourceCount(Cleaned(InputOf(detected[i])))

\* C25 witness: an output with a signal whose keywords were all on the stop
\* list, of score 0, and a signal with a keyword that two sources have.
C25_Witness ==
  /\ ProcessDone
  /\ \E i \in 1..Len(detected) :
       /\ InputOf(detected[i]).keywords # <<>>
       /\ Cleaned(InputOf(detected[i])) = <<>>
       /\ detected[i].crossSourceScore = 0
  /\ \E i \in 1..Len(detected) :
       /\ detected[i].crossSourceScore > 1000
       /\ Len(Cleaned(InputOf(detected[i]))) < Len(InputOf(detected[i]).keywords)

---------------------------------------------------------------------------
(* Properties of the arguments of processSignals and clusterSignals.       *)

\* The addresses of an array of signals, of its objects and of their
\* keywords arrays.
Reachable(h, a) ==
  {a} \cup Range(h[a].items)
      \cup {h[h[a].items[i]].fields.keywords : i \in 1..Len(h[a].items)}

\* A call leaves the caller's array and the array it is given, their
\* objects and the keywords arrays of these as they are.
InputKept ==
  pc \in {"frame", "scored"} =>
    \A a \in Reachable(heap, arg) \cup Reachable(heap, CallInput) :
      heap'[a] = heap[a]

\* C26: processSignals and clusterSignals leave their input unchanged: the
\* input array has the same elements in the same order, and every input
\* signal object has the same field values, its keywords list included.
C26_InputUnchanged == [][InputKept]_vars

\* The address of the array processSignals returned for the caller's array
\* of n > 0 signals: cleanKeywords allocated 2 n + 1 cells before it, the
\* map n.
ScoredAt == arg + 3 * Len(heap[arg].items) + 2

\* C26 witness: clusterSignals has returned a narrative for the array
\* processSignals returned; a signal of the narrative has other keywords
\* than the caller's signal of its id, and the array processSignals returned
\* has the caller's signals in another order.
C26_Witness ==
  /\ pc = "analyzed"
  /\ \E n \in Range(heap[ret].items) :
       \E m \in Range(heap[heap[n].fields.signals].items) :
         \E i \in 1..Len(heap[arg].items) :
           /\ BatchAt(heap, arg)[i].id = SignalAt(heap, m).id
           /\ BatchAt(heap, arg)[i].keywords # SignalAt(heap, m).keywords
  /\ [i \in 1..Len(heap[arg].items) |-> BatchAt(heap, ScoredAt)[i].id]
       # [i \in 1..Len(heap[arg].items) |-> BatchAt(heap, arg)[i].id]

---------------------------------------------------------------------------
(* Properties of the refresh handler.                                      *)

\* The collectors that threw.
Failed == {c \in 1..Len(results) : results[c].errors # <<>>}

\* The signals the collectors returned, in the order of the collectors.
Collected ==
  Flatten([c \in 1..Len(results) |->
             IF c \in Failed THEN <<>> ELSE results[c].signals])

\* Every signal collected has the fields of a Signal.
WellFormed == \A i \in 1..Len(Collected) : "keywords" \in DOMAIN Collected[i]

\* The run is past the collectors.
PastCollectors ==
  pc \in {"analyze", "failed"} \/ (pc = "responded" /\ response.status # 401)

\* C27: a failure thrown by a collector does not abort the run: the failing
\* source contributes no signal, every collector is run, and scoring and
\* clustering are run on the signals collected, or skipped with a success
\* response when none was collected.
C27_CollectorFailureTolerated ==
  /\ WellFormed => pc # "failed"
  /\ PastCollectors => Len(results) = Len(Collectors)
  /\ \A c \in Failed : results[c].signals = <<>>
  /\ (pc = "responded" /\ response.status # 401 /\ WellFormed) =>
       /\ response.status = 200
       /\ response.success
       /\ IF Collected = <<>>
          THEN response.skipped /\ detected = <<>> /\ result = <<>>
          ELSE /\ ~response.skipped
               /\ detected \in processSignals(Collected, now)
               /\ result = clusterSignals(detected, now)
               /\ response.totalSignals = Len(Collected)

\* C27 witness: a collector threw, collectors after it returned signals,
\* and the response reports a narrative from the signals collected.
C27_Witness ==
  /\ pc = "responded"
  /\ response.status = 200
  /\ \E c \in Failed :
       \E d \in 1..Len(results) : c < d /\ results[d].signals # <<>>
  /\ result # <<>>
  /\ response.narrativesDetected = Len(result)

---------------------------------------------------------------------------
(* Properties of normalizeKeywords applied twice.                          *)

\* C30: normalizeKeywords is idempotent: applied to the list it returned it
\* returns a list of exactly the same keywords.
C30_Original ==
  /\ pc # "threw"
  /\ pc = "renormalized" => Range(normResult) = Range(normInput)

---------------------------------------------------------------------------
(* Properties of the clusters at the end of the greedy pass.               *)

\* The greedy pass is over.
Built ==
  \/ pc = "build" /\ idx > Len(sortedSignals)
  \/ pc \in {"dedup", "rank"}
  \/ Done /\ Len(signals) >= minClusterSize

\* The number of places the signal at index i has in the clusters.
Memberships(i) ==
  Cardinality({<<c, m>> \in (1..Len(clusters)) \X (1..Len(sortedSignals)) :
                 m <= Len(clusters[c].signals) /\ clusters[c].signals[m] = i})

\* No signal before the one at index i in the order of the pass has its id.
FirstOfId(i) == \A j \in 1..(i - 1) : sortedSignals[j].id # sortedSignals[i].id

DistinctIds ==
  \A i, j \in 1..Len(signals) : signals[i].id = signals[j].id => i = j

\* The ids of the signals of a batch, counted.
IdBag(batch) ==
  [id \in {batch[i].id : i \in 1..Len(batch)} |->
     Cardinality({i \in 1..Len(batch) : batch[i].id = id})]

\* C28: the pass visits the signals of the batch in descending order of
\* normalizedWeight + recencyScore + crossSourceScore; with distinct ids
\* every signal is in exactly one cluster; of several signals of one id the
\* one visited first is in exactly one cluster and the others are in no
\* cluster and in no narrative.
C28_ClustersPartition ==
  Built =>
    /\ IdBag(sortedSignals) = IdBag(signals)
    /\ \A i, j \in 1..Len(sortedSignals) :
         i < j => TotalScore(sortedSignals[i]) >= TotalScore(sortedSignals[j])
    /\ DistinctIds => \A i \in 1..Len(sortedSignals) : Memberships(i) = 1
    /\ \A i \in 1..Len(sortedSignals) :
         Memberships(i) = IF FirstOfId(i) THEN 1 ELSE 0
    /\ Done =>
         \A n \in 1..Len(result) :
           \A m \in 1..Len(result[n].signals) : FirstOfId(result[n].signals[m])

\* C28 witness: a batch with a repeated id and signals of different scores
\* gave a narrative and a signal in no cluster.
C28_Witness ==
  /\ Done
  /\ result # <<>>
  /\ ~DistinctIds
  /\ \E i \in 1..Len(sortedSignals) : Memberships(i) = 0
  /\ TotalScore(sortedSignals[1])
       > TotalScore(sortedSignals[Len(sortedSignals)])
  /\ sortedSignals[1].id # signals[1].id

\* C29: a signal whose normalized keyword set is empty is alone in its
\* cluster, so is in no narrative returned.
C29_EmptyKeywordsAlone ==
  /\ \A c \in 1..Len(clusters) :
       (\E m \in 1..Len(clusters[c].signals) :
          sortedSignals[clusters[c].signals[m]].keywords = <<>>)
         => Len(clusters[c].signals) = 1
  /\ Done =>
       \A n \in 1..Len(result) :
         \A m \in 1..Len(result[n].signals) :
           sortedSignals[result[n].signals[m]].keywords # <<>>

\* C29 witness: two signals without normalized keywords are each alone in a
\* cluster, and a narrative was returned.
C29_Witness ==
  /\ \E c, d \in 1..Len(clusters) :
       /\ c # d
       /\ clusters[c].keywords = <<>>
       /\ clusters[d].keywords = <<>>
  /\ Done
  /\ result # <<>>

=======================================================================
